---- MODULE Spec2Model ----
(***************************************************************************)
(* Model of forklore's derived-statistics, map-clustering and route        *)
(* logic, of the validation of the generate endpoint, of the page          *)
(* component, of the globe's auto-rotation and of the featured endpoint.   *)
(*                                                                         *)
(*   src/lib/statsUtils.ts     calculateTotalDistance, extractYear,        *)
(*                             calculateTimelineSpan, countStops,          *)
(*                             formatDistance, formatTimelineSpan          *)
(*   the map component         computeClusters, updateRoute                *)
(*   (src/lib/components/FeaturedDishCard.svelte, lines 1058-1188)         *)
(*   src/routes/api/generate/+server.ts   POST                             *)
(*   src/routes/[[slug]]/+page.svelte     toSlug, fromSlug,                *)
(*                             fetchDishHistory, updateUrlWithDish,        *)
(*                             resetView, handlePopState, handlePlay,      *)
(*                             animateProgress and the other handlers      *)
(*   the map component         startAutoRotate, stopAutoRotate,            *)
(*   (lines 767-918, 1325-1361)  resetInactivityTimer, the $effect on the  *)
(*                             featured dishes                             *)
(*   src/routes/api/featured/+server.ts   selectRandomDishes, GET          *)
(*                                                                         *)
(* Numbers.  A value of type `number | null` is <<>> for null and <<n>>    *)
(* for the number n.                                                       *)
(*                                                                         *)
(* Coordinates.  The located steps of the model lie on the great circle    *)
(* made of the meridians lng = 0 and lng = 180.  On it the haversine       *)
(* formula has a closed form (see Haversine below), so distances are       *)
(* exact integers: a step's lat field holds the arc from the north pole    *)
(* to the step in metres (i.e. 90 degrees minus the latitude, as an arc),  *)
(* its lng field holds the longitude in degrees, and every distance is in  *)
(* metres.  title and description are opaque to the code modelled here     *)
(* and are left out of a step.                                             *)
(*                                                                         *)
(* Strings.  A string is a sequence of one-character strings.              *)
(***************************************************************************)
EXTENDS Integers, Sequences, FiniteSets, TLC

VARIABLES
    steps,          \* the Step[] handed to the functions (prop `steps`)
    pc,             \* position of the computeClusters call
    index,          \* forEach index of computeClusters (0-based)
    clusters,       \* local `clusters` of computeClusters / its return value
    totalDistance,  \* <<>> or <<value returned by calculateTotalDistance>>
    yearString,     \* argument of the extractYear call
    yearResult,     \* <<>> before the call, <<r>> with r the returned value
    span,           \* <<>> or <<value returned by calculateTimelineSpan>>
    stops,          \* <<>> or <<value returned by countStops>>
    mapReady,       \* `map` is set and has its "route" source
    coordinates,    \* local `coordinates` of updateRoute: the waypoints
    warned,         \* updateRoute's catch block has run (console.warn)
    arcCalls,       \* number of turf.greatCircle calls updateRoute has made
    routeData,      \* <<>> or <<geometry given to the route source's setData>>
    formatInput,    \* argument of the formatting call
    formatted,      \* <<>> or <<string returned by the formatting call>>
    request,        \* the request to POST /api/generate and the model's text
    parsedResponse, \* the model's answer as parsed by POST /api/generate
    response,       \* <<>> or <<response of POST /api/generate>>
    calls,          \* number of calls made of each function (repeated calls)
    slugs,          \* a dish name, its slug and the URL of the slug round trip
    page,           \* state of the page component (routes/[[slug]]/+page.svelte)
    browser,        \* clock, animation frames, requests and session history
    globe,          \* auto-rotation state of the map component and its timers
    featured        \* selection made by the featured endpoint's GET

\* The variables of updateRoute, of the formatting functions and of the
\* generate endpoint.
routeVars == <<mapReady, coordinates, warned, arcCalls, routeData>>

formatVars == <<formatInput, formatted>>

generateVars == <<request, parsedResponse, response>>

\* The variables of the page, of the globe and of the featured endpoint.
appVars == <<slugs, page, browser, globe, featured>>

vars == <<steps, pc, index, clusters, totalDistance, yearString, yearResult, span,
          stops, routeVars, formatVars, generateVars, calls, appVars>>

----------------------------------------------------------------------------
(* Bounds *)

MaxSteps == 4       \* longest step list of the geographic specification

----------------------------------------------------------------------------
(* Generic helpers *)

null == <<>>

Num(n) == <<n>>

Abs(x) == IF x < 0 THEN -x ELSE x

Range(s) == {s[i] : i \in 1..Len(s)}

SeqsUpTo(S, n) == UNION {[1..k -> S] : k \in 0..n}

----------------------------------------------------------------------------
(* Steps *)

Step(year, lat, lng) == [year |-> year, lat |-> lat, lng |-> lng]

\* The label every step of the geographic specification carries.
GeoYear == <<"1", "8", "5", "0">>

\* Arc from the north pole of the southernmost group of points (metres).
BaseArc == 5008 * 1000

\* Located points: four along the meridian lng = 0 at 0, 19.9, 20 and 20.1 km
\* from the first one, and two 8 km from the pole on opposite meridians
\* (16 km apart across the pole, 5000 km and more from the other four).
GeoPoints ==
    { <<BaseArc, 0>>, <<BaseArc + 19900, 0>>, <<BaseArc + 20000, 0>>,
      <<BaseArc + 20100, 0>>, <<8000, 0>>, <<8000, 180>> }

LocatedSteps == {Step(GeoYear, Num(p[1]), Num(p[2])) : p \in GeoPoints}

\* Unlocated steps: both coordinates null, and the two mixed-null forms.
UnlocatedSteps ==
    { Step(GeoYear, null, null),
      Step(GeoYear, Num(BaseArc), null),
      Step(GeoYear, null, Num(0)) }

GeoSteps == LocatedSteps \cup UnlocatedSteps

IsLocated(step) == step.lat # null /\ step.lng # null

----------------------------------------------------------------------------
(* Great-circle distance *)

\* The haversine formula for two points on the meridians lng = 0 / 180, with
\* u1, u2 the arcs from the north pole (lat = 90deg - u):
\*   dLon = 0   : a = sin^2((u1 - u2)/2)         so c = |u1 - u2|
\*   dLon = 180 : a = sin^2(dLat/2) + cos(lat1)cos(lat2) = sin^2((u1 + u2)/2)
\*                                                so c = u1 + u2
\* (u1 + u2 stays below half the circumference for the points used).
\* The result is R * c, an arc length; here in metres.
Haversine(lat1, lon1, lat2, lon2) ==
    IF lon1 = lon2 THEN Abs(lat2 - lat1) ELSE lat1 + lat2

\* statsUtils.ts getDistanceFromLatLonInKm; the value is in metres
\* (kilometres times 1000).
getDistanceFromLatLonInKm(lat1, lon1, lat2, lon2) ==
    Haversine(lat1, lon1, lat2, lon2)

\* turf.distance(from, to, {units: "kilometers"}) on [lng, lat] points; the
\* value is in metres.  (turf uses the mean radius 6371.0088 km where
\* statsUtils uses 6371 km; nothing here relates a value of one function to
\* a value of the other, and both are taken as the arc length.)
turfDistance(from, to) == Haversine(from[2], from[1], to[2], to[1])

----------------------------------------------------------------------------
(* computeClusters *)

CLUSTER_DISTANCE_KM == 20

\* Variant: the test with <= for <.
WithinClusterInclusive(step, cluster) ==
    turfDistance(<<step.lng[1], step.lat[1]>>, <<cluster.lng, cluster.lat>>)
        <= CLUSTER_DISTANCE_KM * 1000

\* Variant: half the threshold.
WithinClusterHalf(step, cluster) ==
    turfDistance(<<step.lng[1], step.lat[1]>>, <<cluster.lng, cluster.lat>>)
        < (CLUSTER_DISTANCE_KM * 1000) \div 2

\* The test of the inner loop: distance < CLUSTER_DISTANCE_KM.
WithinCluster(step, cluster) ==
    turfDistance(<<step.lng[1], step.lat[1]>>, <<cluster.lng, cluster.lat>>)
        < CLUSTER_DISTANCE_KM * 1000

\* Variant: the nearest cluster in range instead of the first one.
NearestClusterInRange(cs, step) ==
    IF \E k \in 1..Len(cs) :
          turfDistance(<<step.lng[1], step.lat[1]>>, <<cs[k].lng, cs[k].lat>>)
              < CLUSTER_DISTANCE_KM * 1000
    THEN CHOOSE k \in 1..Len(cs) :
            /\ turfDistance(<<step.lng[1], step.lat[1]>>, <<cs[k].lng, cs[k].lat>>)
                  < CLUSTER_DISTANCE_KM * 1000
            /\ \A j \in 1..Len(cs) :
                  \/ turfDistance(<<step.lng[1], step.lat[1]>>, <<cs[k].lng, cs[k].lat>>)
                        < turfDistance(<<step.lng[1], step.lat[1]>>, <<cs[j].lng, cs[j].lat>>)
                  \/ /\ turfDistance(<<step.lng[1], step.lat[1]>>, <<cs[k].lng, cs[k].lat>>)
                          = turfDistance(<<step.lng[1], step.lat[1]>>, <<cs[j].lng, cs[j].lat>>)
                     /\ k <= j
    ELSE 0

\* The inner for..of loop with its break: the position of the first cluster,
\* in array order, that passes the test; 0 when none does.
FirstClusterInRange(cs, step) ==
    IF \E k \in 1..Len(cs) : WithinCluster(step, cs[k])
    THEN CHOOSE k \in 1..Len(cs) :
            /\ WithinCluster(step, cs[k])
            /\ \A j \in 1..(k - 1) : ~WithinCluster(step, cs[j])
    ELSE 0

\* cluster.indices.push(i)
PushIndex(cs, k, i) ==
    [cs EXCEPT ![k].indices = Append(@, i)]

\* Variant: the new cluster is put in front (unshift) instead of at the end.
UnshiftCluster(cs, step, i) ==
    <<[indices |-> <<i>>, lat |-> step.lat[1], lng |-> step.lng[1]]>> \o cs

\* clusters.push({indices: [i], lat: step.lat, lng: step.lng})
PushCluster(cs, step, i) ==
    Append(cs, [indices |-> <<i>>, lat |-> step.lat[1], lng |-> step.lng[1]])

\* Variant: addedToCluster is never set, so a step that joined a cluster
\* founds one as well.
ClusterStepNoFlag(cs, step, i) ==
    IF step.lat = null \/ step.lng = null THEN cs
    ELSE IF FirstClusterInRange(cs, step) # 0
         THEN PushCluster(PushIndex(cs, FirstClusterInRange(cs, step), i), step, i)
         ELSE PushCluster(cs, step, i)

\* Variant: no early return; a null coordinate is read as 0.
ClusterStepNullAsZero(cs, step, i) ==
    LET lat == IF step.lat = null THEN Num(0) ELSE step.lat
        lng == IF step.lng = null THEN Num(0) ELSE step.lng
        st  == [step EXCEPT !.lat = lat, !.lng = lng]
    IN  IF FirstClusterInRange(cs, st) # 0
        THEN PushIndex(cs, FirstClusterInRange(cs, st), i)
        ELSE PushCluster(cs, st, i)

\* One invocation of the forEach callback on (step, i).
ClusterStep(cs, step, i) ==
    IF step.lat = null \/ step.lng = null THEN cs
    ELSE IF FirstClusterInRange(cs, step) # 0
         THEN PushIndex(cs, FirstClusterInRange(cs, step), i)
         ELSE PushCluster(cs, step, i)

\* The whole function on a step list s; indices are 0-based as in the code.
RECURSIVE ClusterFrom(_, _, _)
ClusterFrom(cs, s, i) ==
    IF i >= Len(s) THEN cs
    ELSE ClusterFrom(ClusterStep(cs, s[i + 1], i), s, i + 1)

computeClusters(s) == ClusterFrom(<<>>, s, 0)

----------------------------------------------------------------------------
(* calculateTotalDistance *)

\* Variant: the filter tests lat alone.
validStepsLatOnly(s) == SelectSeq(s, LAMBDA step : step.lat # null)

\* steps.filter((step) => step.lat !== null && step.lng !== null)
validSteps(s) == SelectSeq(s, LAMBDA step : step.lat # null /\ step.lng # null)

\* The body of the for loop at position i (0-based) of validSteps.
LegDistance(v, i) ==
    IF /\ v[i + 1].lat # null /\ v[i + 1].lng # null
       /\ v[i + 2].lat # null /\ v[i + 2].lng # null
    THEN getDistanceFromLatLonInKm(v[i + 1].lat[1], v[i + 1].lng[1],
                                   v[i + 2].lat[1], v[i + 2].lng[1])
    ELSE 0

RECURSIVE SumLegs(_, _)
SumLegs(v, i) ==
    IF i < Len(v) - 1 THEN LegDistance(v, i) + SumLegs(v, i + 1) ELSE 0

\* Variant: Math.floor for Math.round.
FloorTo100(m) == (m \div 100000) * 100

\* Math.round(totalDistance / 100) * 100 for totalDistance = m metres:
\* Math.round(x) is floor(x + 1/2), and floor(m / 100000 + 1/2) is
\* (m + 50000) \div 100000.
RoundTo100(m) == ((m + 50000) \div 100000) * 100

\* Variant: no filter and no null test; a null coordinate is read as 0.
RECURSIVE SumAllLegs(_, _)
SumAllLegs(s, i) ==
    IF i < Len(s) - 1
    THEN getDistanceFromLatLonInKm(
            IF s[i + 1].lat = null THEN 0 ELSE s[i + 1].lat[1],
            IF s[i + 1].lng = null THEN 0 ELSE s[i + 1].lng[1],
            IF s[i + 2].lat = null THEN 0 ELSE s[i + 2].lat[1],
            IF s[i + 2].lng = null THEN 0 ELSE s[i + 2].lng[1])
         + SumAllLegs(s, i + 1)
    ELSE 0

calculateTotalDistanceNullAsZero(s) == RoundTo100(SumAllLegs(s, 0))

\* The value returned, in kilometres.
calculateTotalDistance(s) == RoundTo100(SumLegs(validSteps(s), 0))

----------------------------------------------------------------------------
(* Specification of computeClusters: a step list, then the call, one       *)
(* forEach iteration at a time.                                            *)

\* No function has been called.
NoCalls ==
    [fn \in {"computeClusters", "calculateTotalDistance", "calculateTimelineSpan",
             "countStops"} |-> 0]

\* The parts of the state a specification does not use stay as they are here.
RouteIdle ==
    /\ mapReady = FALSE
    /\ coordinates = <<>>
    /\ warned = FALSE
    /\ arcCalls = 0
    /\ routeData = null

FormatIdle ==
    /\ formatInput = null
    /\ formatted = null

GenerateIdle ==
    /\ request = null
    /\ parsedResponse = null
    /\ response = null

AppIdle ==
    /\ slugs = null
    /\ page = null
    /\ browser = null
    /\ globe = null
    /\ featured = null

Init ==
    /\ steps \in SeqsUpTo(GeoSteps, MaxSteps)
    /\ pc = "idle"
    /\ index = 0
    /\ clusters = <<>>
    /\ totalDistance = null
    /\ yearString = <<>>
    /\ yearResult = null
    /\ span = null
    /\ stops = null
    /\ RouteIdle
    /\ FormatIdle
    /\ GenerateIdle
    /\ calls = NoCalls
    /\ AppIdle

computeClustersCall ==
    /\ pc = "idle"
    /\ pc' = "forEach"
    /\ index' = 0
    /\ clusters' = <<>>
    /\ UNCHANGED <<steps, totalDistance, yearString, yearResult, span, stops, routeVars, formatVars, generateVars, calls, appVars>>

\* forEach callback on an unlocated step: early return.
forEachSkip ==
    /\ pc = "forEach"
    /\ index < Len(steps)
    /\ steps[index + 1].lat = null \/ steps[index + 1].lng = null
    /\ clusters' = ClusterStep(clusters, steps[index + 1], index)
    /\ index' = index + 1
    /\ UNCHANGED <<steps, pc, totalDistance, yearString, yearResult, span, stops, routeVars, formatVars, generateVars, calls, appVars>>

\* forEach callback on a located step with a cluster in range.
forEachJoin ==
    /\ pc = "forEach"
    /\ index < Len(steps)
    /\ IsLocated(steps[index + 1])
    /\ FirstClusterInRange(clusters, steps[index + 1]) # 0
    /\ clusters' = ClusterStep(clusters, steps[index + 1], index)
    /\ index' = index + 1
    /\ UNCHANGED <<steps, pc, totalDistance, yearString, yearResult, span, stops, routeVars, formatVars, generateVars, calls, appVars>>

\* forEach callback on a located step with no cluster in range.
forEachFound ==
    /\ pc = "forEach"
    /\ index < Len(steps)
    /\ IsLocated(steps[index + 1])
    /\ FirstClusterInRange(clusters, steps[index + 1]) = 0
    /\ clusters' = ClusterStep(clusters, steps[index + 1], index)
    /\ index' = index + 1
    /\ UNCHANGED <<steps, pc, totalDistance, yearString, yearResult, span, stops, routeVars, formatVars, generateVars, calls, appVars>>

computeClustersReturn ==
    /\ pc = "forEach"
    /\ index = Len(steps)
    /\ pc' = "returned"
    /\ UNCHANGED <<steps, index, clusters, totalDistance, yearString, yearResult, span, stops, routeVars, formatVars, generateVars, calls, appVars>>

Next ==
    \/ computeClustersCall
    \/ forEachSkip
    \/ forEachJoin
    \/ forEachFound
    \/ computeClustersReturn

Spec == Init /\ [][Next]_vars

----------------------------------------------------------------------------
(* countStops *)

\* Variant: the filter joins the two tests with || .
countStopsEitherCoordinate(s) ==
    Len(SelectSeq(s, LAMBDA step : step.lat # null \/ step.lng # null))

\* steps.filter((step) => step.lat !== null && step.lng !== null).length
countStops(s) ==
    Len(SelectSeq(s, LAMBDA step : step.lat # null /\ step.lng # null))

----------------------------------------------------------------------------
(* Specification of calculateTotalDistance and countStops: a step list,    *)
(* then the calls, in either order.                                        *)

calculateTotalDistanceCall ==
    /\ pc = "idle"
    /\ totalDistance = null
    /\ totalDistance' = Num(calculateTotalDistance(steps))
    /\ UNCHANGED <<steps, pc, index, clusters, yearString, yearResult, span, stops, routeVars, formatVars, generateVars, calls, appVars>>

countStopsCall ==
    /\ pc = "idle"
    /\ stops = null
    /\ stops' = Num(countStops(steps))
    /\ UNCHANGED <<steps, pc, index, clusters, totalDistance, yearString, yearResult,
                   span, routeVars, formatVars, generateVars, calls, appVars>>

NextDistance ==
    \/ calculateTotalDistanceCall
    \/ countStopsCall

SpecDistance == Init /\ [][NextDistance]_vars

----------------------------------------------------------------------------
(* Strings and the regular expressions of extractYear *)

UpperCase == <<"A", "B", "C", "D", "E", "F", "G", "H", "I", "J", "K", "L", "M",
               "N", "O", "P", "Q", "R", "S", "T", "U", "V", "W", "X", "Y", "Z">>

LowerCase == <<"a", "b", "c", "d", "e", "f", "g", "h", "i", "j", "k", "l", "m",
               "n", "o", "p", "q", "r", "s", "t", "u", "v", "w", "x", "y", "z">>

Digits == <<"0", "1", "2", "3", "4", "5", "6", "7", "8", "9">>

DigitChars == Range(Digits)

UpperCaseChars == Range(UpperCase)

\* \d
IsDigit(c) == c \in DigitChars

\* \s (of the characters used here: space and tab)
IsSpace(c) == c \in {" ", "\t"}

\* Variant: toLowerCase left out.
toLowerCaseSkipped(s) == s

\* String.prototype.toLowerCase
toLowerCase(s) ==
    [i \in 1..Len(s) |->
        IF s[i] \in UpperCaseChars
        THEN LowerCase[CHOOSE n \in 1..26 : UpperCase[n] = s[i]]
        ELSE s[i]]

\* parseInt(s, 10) for a string of decimal digits.
RECURSIVE parseInt(_)
parseInt(s) ==
    IF s = <<>> THEN 0
    ELSE parseInt(SubSeq(s, 1, Len(s) - 1)) * 10
            + ((CHOOSE d \in 1..10 : Digits[d] = s[Len(s)]) - 1)

\* The n characters of str from position p on are digits: \d{n} at p.
DigitsAt(str, p, n) ==
    /\ p + n - 1 <= Len(str)
    /\ \A i \in p..(p + n - 1) : IsDigit(str[i])

\* The w characters of str from position p on are white space.
SpacesAt(str, p, w) ==
    /\ p + w - 1 <= Len(str)
    /\ \A i \in p..(p + w - 1) : IsSpace(str[i])

\* The literal lit stands at position p of str.
LiteralAt(str, p, lit) ==
    /\ p + Len(lit) - 1 <= Len(str)
    /\ SubSeq(str, p, p + Len(lit) - 1) = lit

\* \s* followed by one of the literals of lits, at position p.
SpacesThen(str, p, lits) ==
    \E w \in 0..Len(str) :
        /\ SpacesAt(str, p, w)
        /\ \E lit \in lits : LiteralAt(str, p + w, lit)

\* /(\d{1,4})\s*(bce|bc)/ matches at position p with n digits in group 1.
BceAt(str, p, n) ==
    /\ n \in 1..4
    /\ DigitsAt(str, p, n)
    /\ SpacesThen(str, p + n, {<<"b", "c", "e">>, <<"b", "c">>})

\* /(\d{1,2})(st|nd|rd|th)\s*century/ matches at p with n digits in group 1.
CenturyAt(str, p, n) ==
    /\ n \in 1..2
    /\ DigitsAt(str, p, n)
    /\ \E suffix \in {<<"s", "t">>, <<"n", "d">>, <<"r", "d">>, <<"t", "h">>} :
          /\ LiteralAt(str, p + n, suffix)
          /\ SpacesThen(str, p + n + 2, {<<"c", "e", "n", "t", "u", "r", "y">>})

\* /\d{3,4}/ matches at position p with n digits.
YearAt(str, p, n) ==
    /\ n \in 3..4
    /\ DigitsAt(str, p, n)

\* The three patterns, by name.
PatternAt(re, str, p, n) ==
    CASE re = "bce" -> BceAt(str, p, n)
      [] re = "century" -> CenturyAt(str, p, n)
      [] re = "year" -> YearAt(str, p, n)

\* str.match(re) from position p on: the positions are tried from the left,
\* and at a position the longest run of digits first (the patterns start
\* with a greedy run of digits).  The value is <<group 1>> for the first
\* match found (for "year": the whole match), or null.
RECURSIVE MatchFrom(_, _, _)
MatchFrom(str, re, p) ==
    IF p > Len(str) THEN null
    ELSE IF \E n \in 1..4 : PatternAt(re, str, p, n)
         THEN LET n0 == CHOOSE n \in 1..4 :
                           /\ PatternAt(re, str, p, n)
                           /\ \A m \in (n + 1)..4 : ~PatternAt(re, str, p, m)
              IN  <<SubSeq(str, p, p + n0 - 1)>>
         ELSE MatchFrom(str, re, p + 1)

Match(str, re) == MatchFrom(str, re, 1)

----------------------------------------------------------------------------
(* extractYear *)

\* Variant: the plain-year pattern is tried first.
extractYearPlainFirst(s) ==
    IF s = <<>> THEN null
    ELSE LET str == toLowerCase(s)
             bceMatch == Match(str, "bce")
             centuryMatch == Match(str, "century")
             yearMatch == Match(str, "year")
         IN  IF yearMatch # null THEN Num(parseInt(yearMatch[1]))
             ELSE IF bceMatch # null THEN Num(-parseInt(bceMatch[1]))
             ELSE IF centuryMatch # null
                  THEN Num((parseInt(centuryMatch[1]) - 1) * 100 + 50)
             ELSE null

\* The value returned: null, or Num(year).  (-parseInt("0") is -0 in the
\* code, which every comparison and subtraction treats as 0.)
extractYear(s) ==
    IF s = <<>> THEN null
    ELSE LET str == toLowerCase(s)
             bceMatch == Match(str, "bce")
             centuryMatch == Match(str, "century")
             yearMatch == Match(str, "year")
         IN  IF bceMatch # null THEN Num(-parseInt(bceMatch[1]))
             ELSE IF centuryMatch # null
                  THEN Num((parseInt(centuryMatch[1]) - 1) * 100 + 50)
             ELSE IF yearMatch # null THEN Num(parseInt(yearMatch[1]))
             ELSE null

----------------------------------------------------------------------------
(* Specification of extractYear: a label, then the call.                   *)

MaxTokens == 4      \* most tokens a generated label is made of

\* Pieces the generated labels are made of.
Tokens ==
    { <<"1">>, <<"3", "0">>, <<" ">>, <<"B", "C">>, <<"b", "c", "e">>,
      <<"t", "h">>, <<"n", "d">>, <<"C", "e", "n", "t", "u", "r", "y">>, <<"x">> }

RECURSIVE Concat(_)
Concat(ss) == IF ss = <<>> THEN <<>> ELSE Head(ss) \o Concat(Tail(ss))

GeneratedLabels == {Concat(ts) : ts \in SeqsUpTo(Tokens, MaxTokens)}

Label3000BCE == <<"3", "0", "0", "0", " ", "B", "C", "E">>
Label19thCentury == <<"1", "9", "t", "h", " ", "C", "e", "n", "t", "u", "r", "y">>
Label1889 == <<"1", "8", "8", "9">>
LabelNoDate == <<"n", "o", " ", "d", "a", "t", "e", " ", "h", "e", "r", "e">>
Label300BC == <<"3", "0", "0", " ", "B", "C">>
Label1850 == <<"1", "8", "5", "0">>
Label1960 == <<"1", "9", "6", "0">>

ExampleLabels ==
    { Label3000BCE, Label19thCentury, Label1889, LabelNoDate, Label300BC,
      Label1850, Label1960,
      <<"L", "a", "t", "e", " ", "1", "9", "t", "h", " ", "C", "e", "n", "t", "u", "r", "y">>,
      <<"2", "0", "0", " ", "A", "D">>,
      <<"t", "h", "e", " ", "1", "8", "0", "0", "s">>,
      <<"1", "2", "3", "4", "5", " ", "b", "c">>,
      <<"5", "t", "h", " ", "c", "e", "n", "t", "u", "r", "y", " ", "B", "C", "E">>,
      <<"2", "1", "s", "t", "\t", "C", "E", "N", "T", "U", "R", "Y">>,
      <<"2", "n", "d", " ", "c", "e", "n", "t", "u", "r", "y", ",", " ", "4", "0", " ", "B", "C">> }

Labels == GeneratedLabels \cup ExampleLabels

InitYear ==
    /\ yearString \in Labels
    /\ yearResult = null
    /\ steps = <<>>
    /\ pc = "idle"
    /\ index = 0
    /\ clusters = <<>>
    /\ totalDistance = null
    /\ span = null
    /\ stops = null
    /\ RouteIdle
    /\ FormatIdle
    /\ GenerateIdle
    /\ calls = NoCalls
    /\ AppIdle

\* if (!yearString) return null
extractYearEmpty ==
    /\ yearResult = null
    /\ yearString = <<>>
    /\ yearResult' = <<extractYear(yearString)>>
    /\ UNCHANGED <<steps, pc, index, clusters, totalDistance, yearString, span, stops, routeVars, formatVars, generateVars, calls, appVars>>

\* if (bceMatch) return ...
extractYearBce ==
    /\ yearResult = null
    /\ yearString # <<>>
    /\ Match(toLowerCase(yearString), "bce") # null
    /\ yearResult' = <<extractYear(yearString)>>
    /\ UNCHANGED <<steps, pc, index, clusters, totalDistance, yearString, span, stops, routeVars, formatVars, generateVars, calls, appVars>>

\* if (centuryMatch) return ...
extractYearCentury ==
    /\ yearResult = null
    /\ yearString # <<>>
    /\ Match(toLowerCase(yearString), "bce") = null
    /\ Match(toLowerCase(yearString), "century") # null
    /\ yearResult' = <<extractYear(yearString)>>
    /\ UNCHANGED <<steps, pc, index, clusters, totalDistance, yearString, span, stops, routeVars, formatVars, generateVars, calls, appVars>>

\* if (yearMatch) return ...
extractYearPlain ==
    /\ yearResult = null
    /\ yearString # <<>>
    /\ Match(toLowerCase(yearString), "bce") = null
    /\ Match(toLowerCase(yearString), "century") = null
    /\ Match(toLowerCase(yearString), "year") # null
    /\ yearResult' = <<extractYear(yearString)>>
    /\ UNCHANGED <<steps, pc, index, clusters, totalDistance, yearString, span, stops, routeVars, formatVars, generateVars, calls, appVars>>

\* return null
extractYearNone ==
    /\ yearResult = null
    /\ yearString # <<>>
    /\ Match(toLowerCase(yearString), "bce") = null
    /\ Match(toLowerCase(yearString), "century") = null
    /\ Match(toLowerCase(yearString), "year") = null
    /\ yearResult' = <<extractYear(yearString)>>
    /\ UNCHANGED <<steps, pc, index, clusters, totalDistance, yearString, span, stops, routeVars, formatVars, generateVars, calls, appVars>>

NextYear ==
    \/ extractYearEmpty
    \/ extractYearBce
    \/ extractYearCentury
    \/ extractYearPlain
    \/ extractYearNone

SpecYear == InitYear /\ [][NextYear]_vars

----------------------------------------------------------------------------
(* calculateTimelineSpan *)

Unknown == <<"U", "n", "k", "n", "o", "w", "n">>

\* Variant: the difference without Math.abs.
calculateTimelineSpanNoAbs(s) ==
    IF Len(s) = 0 THEN [years |-> null, fallbackEra |-> Unknown]
    ELSE LET firstYear == extractYear(s[1].year)
             lastYear == extractYear(s[Len(s)].year)
         IN  IF firstYear # null /\ lastYear # null
             THEN [years |-> Num(lastYear[1] - firstYear[1]),
                   fallbackEra |-> s[1].year]
             ELSE [years |-> null, fallbackEra |-> s[1].year]

\* Variant: the last year read from the step before the last one.
calculateTimelineSpanOffByOne(s) ==
    IF Len(s) = 0 THEN [years |-> null, fallbackEra |-> Unknown]
    ELSE LET firstYear == extractYear(s[1].year)
             lastYear == extractYear(s[IF Len(s) > 1 THEN Len(s) - 1 ELSE 1].year)
         IN  IF firstYear # null /\ lastYear # null
             THEN [years |-> Num(Abs(lastYear[1] - firstYear[1])),
                   fallbackEra |-> s[1].year]
             ELSE [years |-> null, fallbackEra |-> s[1].year]

\* The value returned: {years, fallbackEra}.
calculateTimelineSpan(s) ==
    IF Len(s) = 0 THEN [years |-> null, fallbackEra |-> Unknown]
    ELSE LET firstYear == extractYear(s[1].year)
             lastYear == extractYear(s[Len(s)].year)
         IN  IF firstYear # null /\ lastYear # null
             THEN [years |-> Num(Abs(lastYear[1] - firstYear[1])),
                   fallbackEra |-> s[1].year]
             ELSE [years |-> null, fallbackEra |-> s[1].year]

----------------------------------------------------------------------------
(* Specification of calculateTimelineSpan: a step list, then the call.     *)

MaxSpanSteps == 3   \* longest step list of this specification

\* Steps with labels that parse to a negative year, to positive years and
\* to nothing, and an empty label; located at two places, or unlocated.
SpanSteps ==
    { Step(Label3000BCE, Num(BaseArc), Num(0)),
      Step(Label3000BCE, null, null),
      Step(Label1850, null, null),
      Step(Label1850, Num(BaseArc), Num(0)),
      Step(Label1960, Num(8000), Num(180)),
      Step(Label1960, null, null),
      Step(Label19thCentury, Num(8000), Num(180)),
      Step(LabelNoDate, Num(BaseArc), Num(0)),
      Step(LabelNoDate, null, null),
      Step(<<>>, null, null) }

InitSpan ==
    /\ steps \in SeqsUpTo(SpanSteps, MaxSpanSteps)
    /\ span = null
    /\ pc = "idle"
    /\ index = 0
    /\ clusters = <<>>
    /\ totalDistance = null
    /\ yearString = <<>>
    /\ yearResult = null
    /\ stops = null
    /\ RouteIdle
    /\ FormatIdle
    /\ GenerateIdle
    /\ calls = NoCalls
    /\ AppIdle

\* if (steps.length === 0) return ...
calculateTimelineSpanEmpty ==
    /\ span = null
    /\ Len(steps) = 0
    /\ span' = <<calculateTimelineSpan(steps)>>
    /\ UNCHANGED <<steps, pc, index, clusters, totalDistance, yearString, yearResult, stops, routeVars, formatVars, generateVars, calls, appVars>>

\* if (firstYear !== null && lastYear !== null) return ...
calculateTimelineSpanParsed ==
    /\ span = null
    /\ Len(steps) # 0
    /\ extractYear(steps[1].year) # null
    /\ extractYear(steps[Len(steps)].year) # null
    /\ span' = <<calculateTimelineSpan(steps)>>
    /\ UNCHANGED <<steps, pc, index, clusters, totalDistance, yearString, yearResult, stops, routeVars, formatVars, generateVars, calls, appVars>>

\* the final return: the era of the first step.
calculateTimelineSpanFallback ==
    /\ span = null
    /\ Len(steps) # 0
    /\ ~(extractYear(steps[1].year) # null /\ extractYear(steps[Len(steps)].year) # null)
    /\ span' = <<calculateTimelineSpan(steps)>>
    /\ UNCHANGED <<steps, pc, index, clusters, totalDistance, yearString, yearResult, stops, routeVars, formatVars, generateVars, calls, appVars>>

NextSpan ==
    \/ calculateTimelineSpanEmpty
    \/ calculateTimelineSpanParsed
    \/ calculateTimelineSpanFallback

SpecSpan == InitSpan /\ [][NextSpan]_vars

----------------------------------------------------------------------------
(* updateRoute                                                             *)
(*                                                                         *)
(* A position is <<lng, lat>>, as the code writes it.  The entries of a    *)
(* coordinate list are sequences of numbers: an entry of length 2 is a     *)
(* position; where the code puts an array of two positions in the place    *)
(* of a position, the entry is the four numbers of the two, in order.      *)

\* Number.prototype.toString for an integer.
RECURSIVE toString(_)
toString(n) ==
    IF n < 0 THEN <<"-">> \o toString(-n)
    ELSE IF n < 10 THEN <<Digits[n + 1]>>
    ELSE toString(n \div 10) \o <<Digits[(n % 10) + 1]>>

\* stepToClusterCoord.has(idx)
HasClusterCoord(cs, idx) == \E j \in 1..Len(cs) : idx \in Range(cs[j].indices)

\* stepToClusterCoord.get(idx): [cluster.lng, cluster.lat] of the cluster
\* whose indices hold idx.
stepToClusterCoord(cs, idx) ==
    LET j == CHOOSE k \in 1..Len(cs) : idx \in Range(cs[k].indices)
    IN  <<cs[j].lng, cs[j].lat>>

\* `${coord[0]},${coord[1]}`
ClusterKey(coord) == toString(coord[1]) \o <<",">> \o toString(coord[2])

\* Variant: every located step pushes its cluster's coordinate, seen or not.
RECURSIVE WaypointsFromUnseen(_, _, _, _, _)
WaypointsFromUnseen(s, cs, i, seenClusters, out) ==
    IF i >= Len(s) THEN out
    ELSE IF s[i + 1].lat = null \/ s[i + 1].lng = null
         THEN WaypointsFromUnseen(s, cs, i + 1, seenClusters, out)
    ELSE IF ~HasClusterCoord(cs, i)
         THEN WaypointsFromUnseen(s, cs, i + 1, seenClusters, out)
    ELSE WaypointsFromUnseen(s, cs, i + 1, seenClusters,
                             Append(out, stepToClusterCoord(cs, i)))

\* steps.forEach((step, index) => ...) of updateRoute from index i on, with
\* the keys seen and the coordinates pushed so far.
RECURSIVE WaypointsFrom(_, _, _, _, _)
WaypointsFrom(s, cs, i, seenClusters, out) ==
    IF i >= Len(s) THEN out
    ELSE IF s[i + 1].lat = null \/ s[i + 1].lng = null
         THEN WaypointsFrom(s, cs, i + 1, seenClusters, out)
    ELSE IF ~HasClusterCoord(cs, i)
         THEN WaypointsFrom(s, cs, i + 1, seenClusters, out)
    ELSE LET coord == stepToClusterCoord(cs, i)
             key == ClusterKey(coord)
         IN  IF key \in seenClusters
             THEN WaypointsFrom(s, cs, i + 1, seenClusters, out)
             ELSE WaypointsFrom(s, cs, i + 1, seenClusters \cup {key},
                                Append(out, coord))

\* The `coordinates` updateRoute builds for the steps s.
Waypoints(s) == WaypointsFrom(s, computeClusters(s), 0, {}, <<>>)

\* { npoints: 50 }
npoints == 50

\* A position of the great circle of the model as a signed arc from the
\* north pole: positive on the meridian lng = 0, negative on lng = 180.
SignedArc(position) ==
    IF position[1] = 0 THEN position[2] ELSE -position[2]

PositionAtArc(arc) == IF arc >= 0 THEN <<0, arc>> ELSE <<180, -arc>>

\* The points turf.greatCircle computes: npoints positions at equal steps
\* along the great circle from start to end, both included.
ArcPositions(start, end) ==
    [k \in 1..npoints |->
        PositionAtArc((SignedArc(start) * (npoints - k) + SignedArc(end) * (k - 1))
                         \div (npoints - 1))]

\* What a call of turf.greatCircle can do.  It returns a LineString of the
\* npoints positions; or, when the arc crosses the antimeridian, a
\* MultiLineString, whose coordinates are the lines the arc is split into;
\* or it throws (antipodal points).  Which one is decided by turf from the
\* two points; here it is an input of the call.
Outcomes == {"LineString", "MultiLineString", "throws"}

\* The Feature returned by turf.greatCircle(start, end, {npoints: 50}) when
\* it returns one of the given type.
greatCircle(start, end, type) ==
    IF type = "LineString"
    THEN [type |-> type, coordinates |-> ArcPositions(start, end)]
    ELSE [type |-> type,
          coordinates |-> << SubSeq(ArcPositions(start, end), 1, npoints \div 2),
                             SubSeq(ArcPositions(start, end), (npoints \div 2) + 1, npoints) >>]

\* (c) => [c[0], c[1]] on the elements of arc.geometry.coordinates: of a
\* position its two numbers, of a line its first two positions.
FirstTwo(arc, seq) ==
    [j \in 1..Len(seq) |->
        IF arc.type = "LineString" THEN <<seq[j][1], seq[j][2]>>
        ELSE seq[j][1] \o seq[j][2]]

\* Variant: no point is dropped.
SliceNone(seq) == seq

\* arcCoords.slice(0, -1)
SliceDropLast(seq) == SubSeq(seq, 1, Len(seq) - 1)

\* The for loop of updateRoute from i on, with the allCoords pushed so far;
\* outcomes[i + 1] is what the call of turf.greatCircle for the pair
\* coordinates[i], coordinates[i + 1] does.  The result tells whether a call
\* threw, the allCoords at that point and the number of calls made.
RECURSIVE InterpolateFrom(_, _, _, _)
InterpolateFrom(coords, outcomes, i, allCoords) ==
    IF i >= Len(coords) - 1
    THEN [thrown |-> FALSE, allCoords |-> allCoords, calls |-> i]
    ELSE IF outcomes[i + 1] = "throws"
         THEN [thrown |-> TRUE, allCoords |-> allCoords, calls |-> i + 1]
    ELSE LET arc == greatCircle(coords[i + 1], coords[i + 2], outcomes[i + 1])
             arcCoords == arc.coordinates
         IN  InterpolateFrom(coords, outcomes, i + 1,
                 allCoords \o (IF i < Len(coords) - 2
                               THEN FirstTwo(arc, SliceDropLast(arcCoords))
                               ELSE FirstTwo(arc, arcCoords)))

\* Variant: the test is coordinates.length >= 1.
needsArcsFromOne(coords) == Len(coords) >= 1

\* if (coordinates.length >= 2)
needsArcs(coords) == Len(coords) >= 2

\* Variant: allCoords is the geometry's list from the start of the loop, so
\* what was pushed before the exception stays in it.
RouteGeometryPartial(coords, r) ==
    [type |-> "LineString", coordinates |-> r.allCoords]

\* The geometry after the try block with result r: `geometry` is assigned
\* only after the loop, so after an exception it still holds `coordinates`.
RouteGeometry(coords, r) ==
    [type |-> "LineString",
     coordinates |-> IF r.thrown THEN coords ELSE r.allCoords]

----------------------------------------------------------------------------
(* Specification of updateRoute: a step list and a map, then the call.     *)

MaxRouteSteps == 4   \* longest step list of this specification

\* Arc from the north pole of the southern points of this specification
\* (metres).  All arcs are multiples of npoints - 1, so that the positions
\* of every great-circle arc between two points are whole metres.
RouteBase == 4900 * 1000

\* <<lat, lng>> of the located steps: a point, one 19.894 km and one 20.09
\* km further south, one near the pole and one on the opposite meridian.
RoutePoints ==
    { <<RouteBase, 0>>,
      <<RouteBase + 19894, 0>>,
      <<RouteBase + 20090, 0>>,
      <<9800, 0>>,
      <<RouteBase, 180>> }

RouteSteps ==
    {Step(GeoYear, Num(p[1]), Num(p[2])) : p \in RoutePoints}
        \cup {Step(GeoYear, null, null), Step(GeoYear, Num(RouteBase), null)}

InitRoute ==
    /\ steps \in SeqsUpTo(RouteSteps, MaxRouteSteps)
    /\ mapReady \in BOOLEAN
    /\ coordinates = <<>>
    /\ warned = FALSE
    /\ arcCalls = 0
    /\ routeData = null
    /\ pc = "idle"
    /\ index = 0
    /\ clusters = <<>>
    /\ totalDistance = null
    /\ yearString = <<>>
    /\ yearResult = null
    /\ span = null
    /\ stops = null
    /\ FormatIdle
    /\ GenerateIdle
    /\ calls = NoCalls
    /\ AppIdle

\* if (!map || !map.getSource("route")) return;
updateRouteNoMap ==
    /\ ~mapReady
    /\ UNCHANGED vars

\* Fewer than two waypoints: the try block is not entered.
updateRouteShort ==
    /\ mapReady
    /\ routeData = null
    /\ LET wp == Waypoints(steps)
       IN  /\ ~needsArcs(wp)
           /\ coordinates' = wp
           /\ routeData' = <<[type |-> "LineString", coordinates |-> wp]>>
    /\ UNCHANGED <<steps, pc, index, clusters, totalDistance, yearString, yearResult,
                   span, stops, mapReady, warned, arcCalls, formatVars, generateVars, calls, appVars>>

\* The loop runs to its end: no call of turf.greatCircle throws.
updateRouteArcs ==
    /\ mapReady
    /\ routeData = null
    /\ LET wp == Waypoints(steps)
       IN  /\ needsArcs(wp)
           /\ \E outcomes \in [1..(Len(wp) - 1) -> Outcomes \ {"throws"}] :
                 LET r == InterpolateFrom(wp, outcomes, 0, <<>>)
                 IN  /\ coordinates' = wp
                     /\ arcCalls' = r.calls
                     /\ routeData' = <<RouteGeometry(wp, r)>>
    /\ UNCHANGED <<steps, pc, index, clusters, totalDistance, yearString, yearResult,
                   span, stops, mapReady, warned, formatVars, generateVars, calls, appVars>>

\* The k-th call of turf.greatCircle throws, after k - 1 calls that returned:
\* the catch block warns.
updateRouteCaught ==
    /\ mapReady
    /\ routeData = null
    /\ LET wp == Waypoints(steps)
       IN  /\ needsArcs(wp)
           /\ \E k \in 1..(Len(wp) - 1) :
              \E before \in [1..(k - 1) -> Outcomes \ {"throws"}] :
                 LET outcomes == before \o <<"throws">>
                     r == InterpolateFrom(wp, outcomes, 0, <<>>)
                 IN  /\ coordinates' = wp
                     /\ arcCalls' = r.calls
                     /\ warned' = TRUE
                     /\ routeData' = <<RouteGeometry(wp, r)>>
    /\ UNCHANGED <<steps, pc, index, clusters, totalDistance, yearString, yearResult,
                   span, stops, mapReady, formatVars, generateVars, calls, appVars>>

NextRoute ==
    \/ updateRouteNoMap
    \/ updateRouteShort
    \/ updateRouteArcs
    \/ updateRouteCaught

SpecRoute == InitRoute /\ [][NextRoute]_vars

----------------------------------------------------------------------------
(* formatNumberCompact, formatDistance, formatTimelineSpan                 *)

\* (num / unit).toFixed(1) for integers num >= 0 and unit: the quotient to
\* the nearest tenth.  When the quotient lies exactly between two tenths,
\* toFixed decides on the double that num / unit is: the upper tenth when
\* the double is the quotient itself (it is a multiple of 1/4), and else
\* the side on which the double lies, given here by `up`.
toFixed1(num, unit, up) ==
    LET lower == (num * 10) \div unit
        rest == (num * 10) % unit
        tenths == IF rest * 2 < unit THEN lower
                  ELSE IF rest * 2 > unit THEN lower + 1
                  ELSE IF (num * 4) % unit = 0 THEN lower + 1
                  ELSE IF up THEN lower + 1 ELSE lower
    IN  toString(tenths \div 10) \o <<".">> \o toString(tenths % 10)

\* Variant: nothing is replaced.
replaceNothing(str) == str

\* str.replace(/\.0$/, '')
replacePointZero(str) ==
    IF Len(str) >= 2 /\ str[Len(str) - 1] = "." /\ str[Len(str)] = "0"
    THEN SubSeq(str, 1, Len(str) - 2)
    ELSE str

formatNumberCompact(num, up) ==
    IF num >= 1000000
    THEN replacePointZero(toFixed1(num, 1000000, up)) \o <<"M">>
    ELSE IF num >= 1000
    THEN replacePointZero(toFixed1(num, 1000, up)) \o <<"K">>
    ELSE toString(num)

formatDistance(km, up) ==
    IF km = 0 THEN <<"0", " ", "k", "m">>
    ELSE formatNumberCompact(km, up) \o <<" ", "k", "m">>

formatTimelineSpan(s, up) ==
    IF s.years # null
    THEN <<"~">> \o formatNumberCompact(s.years[1], up)
    ELSE s.fallbackEra

----------------------------------------------------------------------------
(* Specification of the formatting functions: an argument, then the call.  *)

MaxTens == 210   \* the multiples of 10 up to 10 * MaxTens are formatted

\* Numbers below 1000, around 1000, with and without a decimal, at and next
\* to a half tenth, just below and above a million.
FormatNumbers ==
    {k * 10 : k \in 0..MaxTens}
        \cup {1, 7, 999, 1001, 4960, 5900, 12345, 20000, 99949, 99950,
              999949, 999950, 999999, 1000000, 1049999, 1050000,
              1200000, 1250000, 1960000, 12345678}

\* Eras of spans without years.
FormatEras == {LabelNoDate, Unknown, <<>>}

FormatInputs ==
    {[fn |-> "formatDistance", km |-> n] : n \in FormatNumbers}
        \cup {[fn |-> "formatTimelineSpan",
               span |-> [years |-> Num(n), fallbackEra |-> Label3000BCE]] :
                  n \in FormatNumbers}
        \cup {[fn |-> "formatTimelineSpan",
               span |-> [years |-> null, fallbackEra |-> e]] : e \in FormatEras}

InitFormat ==
    /\ formatInput \in FormatInputs
    /\ formatted = null
    /\ steps = <<>>
    /\ pc = "idle"
    /\ index = 0
    /\ clusters = <<>>
    /\ totalDistance = null
    /\ yearString = <<>>
    /\ yearResult = null
    /\ span = null
    /\ stops = null
    /\ RouteIdle
    /\ GenerateIdle
    /\ calls = NoCalls
    /\ AppIdle

\* if (km === 0) return "0 km";
formatDistanceZero ==
    /\ formatted = null
    /\ formatInput.fn = "formatDistance"
    /\ formatInput.km = 0
    /\ \E up \in BOOLEAN : formatted' = <<formatDistance(formatInput.km, up)>>
    /\ UNCHANGED <<steps, pc, index, clusters, totalDistance, yearString, yearResult,
                   span, stops, routeVars, formatInput, generateVars, calls, appVars>>

\* return `${formatNumberCompact(km)} km`;
formatDistanceCompact ==
    /\ formatted = null
    /\ formatInput.fn = "formatDistance"
    /\ formatInput.km # 0
    /\ \E up \in BOOLEAN : formatted' = <<formatDistance(formatInput.km, up)>>
    /\ UNCHANGED <<steps, pc, index, clusters, totalDistance, yearString, yearResult,
                   span, stops, routeVars, formatInput, generateVars, calls, appVars>>

\* if (span.years !== null) return `~${formatNumberCompact(span.years)}`;
formatTimelineSpanYears ==
    /\ formatted = null
    /\ formatInput.fn = "formatTimelineSpan"
    /\ formatInput.span.years # null
    /\ \E up \in BOOLEAN : formatted' = <<formatTimelineSpan(formatInput.span, up)>>
    /\ UNCHANGED <<steps, pc, index, clusters, totalDistance, yearString, yearResult,
                   span, stops, routeVars, formatInput, generateVars, calls, appVars>>

\* return span.fallbackEra;
formatTimelineSpanEra ==
    /\ formatted = null
    /\ formatInput.fn = "formatTimelineSpan"
    /\ formatInput.span.years = null
    /\ \E up \in BOOLEAN : formatted' = <<formatTimelineSpan(formatInput.span, up)>>
    /\ UNCHANGED <<steps, pc, index, clusters, totalDistance, yearString, yearResult,
                   span, stops, routeVars, formatInput, generateVars, calls, appVars>>

NextFormat ==
    \/ formatDistanceZero
    \/ formatDistanceCompact
    \/ formatTimelineSpanYears
    \/ formatTimelineSpanEra

SpecFormat == InitFormat /\ [][NextFormat]_vars

----------------------------------------------------------------------------
(* Specification of repeated calls: a step list, then calls of            *)
(* computeClusters, calculateTotalDistance, calculateTimelineSpan and      *)
(* countStops in any order, each up to MaxCalls times.  A call runs to its *)
(* end before the next one starts.                                         *)

MaxCalls == 2         \* calls of each function
MaxRepeatSteps == 3   \* longest step list of this specification

RepeatSteps ==
    { Step(Label3000BCE, Num(BaseArc), Num(0)),
      Step(Label1850, null, null),
      Step(Label1960, Num(8000), Num(180)),
      Step(LabelNoDate, Num(BaseArc + 19900), Num(0)) }

InitRepeat ==
    /\ steps \in SeqsUpTo(RepeatSteps, MaxRepeatSteps)
    /\ pc = "idle"
    /\ index = 0
    /\ clusters = <<>>
    /\ totalDistance = null
    /\ yearString = <<>>
    /\ yearResult = null
    /\ span = null
    /\ stops = null
    /\ RouteIdle
    /\ FormatIdle
    /\ GenerateIdle
    /\ calls = NoCalls
    /\ AppIdle

\* No call of computeClusters is under way.
NoCallUnderWay == pc \in {"idle", "returned"}

\* Variant: `clusters` is declared outside the function and keeps what the
\* call before left in it.
computeClustersRecallKeepingClusters ==
    /\ NoCallUnderWay
    /\ calls["computeClusters"] < MaxCalls
    /\ calls' = [calls EXCEPT !["computeClusters"] = @ + 1]
    /\ pc' = "forEach"
    /\ index' = 0
    /\ UNCHANGED <<steps, clusters, totalDistance, yearString, yearResult, span, stops,
                   routeVars, formatVars, generateVars, appVars>>

\* A call of computeClusters, the first or a later one: const clusters = [].
computeClustersRecall ==
    /\ NoCallUnderWay
    /\ calls["computeClusters"] < MaxCalls
    /\ calls' = [calls EXCEPT !["computeClusters"] = @ + 1]
    /\ pc' = "forEach"
    /\ index' = 0
    /\ clusters' = <<>>
    /\ UNCHANGED <<steps, totalDistance, yearString, yearResult, span, stops,
                   routeVars, formatVars, generateVars, appVars>>

calculateTotalDistanceRecall ==
    /\ NoCallUnderWay
    /\ calls["calculateTotalDistance"] < MaxCalls
    /\ calls' = [calls EXCEPT !["calculateTotalDistance"] = @ + 1]
    /\ totalDistance' = Num(calculateTotalDistance(steps))
    /\ UNCHANGED <<steps, pc, index, clusters, yearString, yearResult, span, stops,
                   routeVars, formatVars, generateVars, appVars>>

calculateTimelineSpanRecall ==
    /\ NoCallUnderWay
    /\ calls["calculateTimelineSpan"] < MaxCalls
    /\ calls' = [calls EXCEPT !["calculateTimelineSpan"] = @ + 1]
    /\ span' = <<calculateTimelineSpan(steps)>>
    /\ UNCHANGED <<steps, pc, index, clusters, totalDistance, yearString, yearResult,
                   stops, routeVars, formatVars, generateVars, appVars>>

countStopsRecall ==
    /\ NoCallUnderWay
    /\ calls["countStops"] < MaxCalls
    /\ calls' = [calls EXCEPT !["countStops"] = @ + 1]
    /\ stops' = Num(countStops(steps))
    /\ UNCHANGED <<steps, pc, index, clusters, totalDistance, yearString, yearResult,
                   span, routeVars, formatVars, generateVars, appVars>>

NextRepeat ==
    \/ computeClustersRecall
    \/ forEachSkip
    \/ forEachJoin
    \/ forEachFound
    \/ computeClustersReturn
    \/ calculateTotalDistanceRecall
    \/ calculateTimelineSpanRecall
    \/ countStopsRecall

SpecRepeat == InitRepeat /\ [][NextRepeat]_vars

----------------------------------------------------------------------------
(* POST /api/generate                                                      *)
(*                                                                         *)
(* A JSON value is a record of its type and, for a number, its value (0    *)
(* otherwise); "undefined" stands for a property that is missing.  Here    *)
(* lat and lng are in degrees, as the endpoint reads them.                 *)

JNumber(n) == [type |-> "number", value |-> n]

JNull == [type |-> "null", value |-> 0]

JString == [type |-> "string", value |-> 0]

JUndefined == [type |-> "undefined", value |-> 0]

\* typeof v
typeof(v) == IF v.type = "null" THEN "object" ELSE v.type

\* The test of lines 110-114: the step's fields do not have their types.
InvalidStepStructure(step) ==
    \/ typeof(step.year) # "string"
    \/ (typeof(step.lat) # "number" /\ step.lat # JNull)
    \/ (typeof(step.lng) # "number" /\ step.lng # JNull)
    \/ typeof(step.title) # "string"
    \/ typeof(step.description) # "string"

\* The test of lines 121-122 on a step that passed the one above.
InvalidCoordinates(step) ==
    /\ step.lat # JNull /\ step.lng # JNull
    /\ \/ step.lat.value < -90
       \/ step.lat.value > 90
       \/ step.lng.value < -180
       \/ step.lng.value > 180

\* for (const step of parsedResponse.steps) from position i (0-based) on:
\* the error thrown at the first step that fails a test, or "ok".
RECURSIVE ValidateFrom(_, _)
ValidateFrom(items, i) ==
    IF i >= Len(items) THEN "ok"
    ELSE IF InvalidStepStructure(items[i + 1]) THEN "Invalid step structure"
    ELSE IF InvalidCoordinates(items[i + 1]) THEN "Invalid coordinates"
    ELSE ValidateFrom(items, i + 1)

\* !parsedResponse.title || !parsedResponse.emoji || !Array.isArray(parsedResponse.steps)
InvalidStructure(answer) ==
    \/ ~answer.title
    \/ ~answer.emoji
    \/ ~answer.steps.isArray

\* error(status, ...)
ErrorResponse(status) == [status |-> status, body |-> <<>>]

\* json(parsedResponse)
JsonResponse(answer) == [status |-> 200, body |-> <<answer>>]

----------------------------------------------------------------------------
(* Specification of POST /api/generate: a request and the model's answer   *)
(* to it, then the handler.                                                *)

MaxAnswerSteps == 2   \* longest step list of an answer

LatValues ==
    {JNumber(45), JNumber(90), JNumber(-90), JNumber(91), JNumber(-91), JNull, JString}

LngValues ==
    {JNumber(100), JNumber(180), JNumber(-180), JNumber(181), JNumber(-181), JNull}

\* Steps of an answer: every pair of the values above with the text fields
\* in place, and steps with a text field that is missing or not a string.
AnswerSteps ==
    {[year |-> JString, lat |-> lat, lng |-> lng, title |-> JString,
      description |-> JString] : lat \in LatValues, lng \in LngValues}
        \cup {[year |-> JNumber(1889), lat |-> JNumber(45), lng |-> JNumber(100),
               title |-> JString, description |-> JString],
              [year |-> JString, lat |-> JNull, lng |-> JNull,
               title |-> JUndefined, description |-> JString],
              [year |-> JString, lat |-> JUndefined, lng |-> JNumber(100),
               title |-> JString, description |-> JString]}

\* Parsed answers: title and emoji truthy or not, steps an array or not.
Answers ==
    {[title |-> TRUE, emoji |-> TRUE, steps |-> [isArray |-> TRUE, items |-> items]] :
        items \in SeqsUpTo(AnswerSteps, MaxAnswerSteps)}
        \cup {[title |-> FALSE, emoji |-> TRUE, steps |-> [isArray |-> TRUE, items |-> <<>>]],
              [title |-> TRUE, emoji |-> FALSE, steps |-> [isArray |-> TRUE, items |-> <<>>]],
              [title |-> TRUE, emoji |-> TRUE, steps |-> [isArray |-> FALSE, items |-> <<>>]]}

\* A request: the dish parameter is a non-empty string or not, the API key
\* is set or not, and the model's text is missing, not JSON, or JSON.
GoodRequest == [dish |-> TRUE, apiKey |-> TRUE, text |-> "JSON"]

Requests ==
    {GoodRequest,
     [dish |-> FALSE, apiKey |-> TRUE, text |-> "JSON"],
     [dish |-> TRUE, apiKey |-> FALSE, text |-> "JSON"],
     [dish |-> TRUE, apiKey |-> TRUE, text |-> "none"],
     [dish |-> TRUE, apiKey |-> TRUE, text |-> "notJSON"]}

InitGenerate ==
    /\ request \in Requests
    /\ parsedResponse \in Answers
    /\ request # GoodRequest => parsedResponse.steps.items = <<>>
    /\ response = null
    /\ steps = <<>>
    /\ pc = "idle"
    /\ index = 0
    /\ clusters = <<>>
    /\ totalDistance = null
    /\ yearString = <<>>
    /\ yearResult = null
    /\ span = null
    /\ stops = null
    /\ RouteIdle
    /\ FormatIdle
    /\ calls = NoCalls
    /\ AppIdle

\* if (!dish || typeof dish !== 'string') throw error(400, ...)
POSTMissingDish ==
    /\ response = null
    /\ ~request.dish
    /\ response' = <<ErrorResponse(400)>>
    /\ UNCHANGED <<steps, pc, index, clusters, totalDistance, yearString, yearResult,
                   span, stops, routeVars, formatVars, request, parsedResponse, calls, appVars>>

\* if (!apiKey) throw error(500, ...)
POSTNoApiKey ==
    /\ response = null
    /\ request.dish
    /\ ~request.apiKey
    /\ response' = <<ErrorResponse(500)>>
    /\ UNCHANGED <<steps, pc, index, clusters, totalDistance, yearString, yearResult,
                   span, stops, routeVars, formatVars, request, parsedResponse, calls, appVars>>

\* if (!text) throw error(500, ...)
POSTNoText ==
    /\ response = null
    /\ request.dish
    /\ request.apiKey
    /\ request.text = "none"
    /\ response' = <<ErrorResponse(500)>>
    /\ UNCHANGED <<steps, pc, index, clusters, totalDistance, yearString, yearResult,
                   span, stops, routeVars, formatVars, request, parsedResponse, calls, appVars>>

\* JSON.parse throws: error(500, 'Failed to parse AI response...')
POSTParseFailure ==
    /\ response = null
    /\ request.dish
    /\ request.apiKey
    /\ request.text = "notJSON"
    /\ response' = <<ErrorResponse(500)>>
    /\ UNCHANGED <<steps, pc, index, clusters, totalDistance, yearString, yearResult,
                   span, stops, routeVars, formatVars, request, parsedResponse, calls, appVars>>

\* The structure check of lines 101-105 fails.
POSTInvalidStructure ==
    /\ response = null
    /\ request = GoodRequest
    /\ InvalidStructure(parsedResponse)
    /\ response' = <<ErrorResponse(500)>>
    /\ UNCHANGED <<steps, pc, index, clusters, totalDistance, yearString, yearResult,
                   span, stops, routeVars, formatVars, request, parsedResponse, calls, appVars>>

\* A step fails the type test of lines 109-118.
POSTInvalidStep ==
    /\ response = null
    /\ request = GoodRequest
    /\ ~InvalidStructure(parsedResponse)
    /\ ValidateFrom(parsedResponse.steps.items, 0) = "Invalid step structure"
    /\ response' = <<ErrorResponse(500)>>
    /\ UNCHANGED <<steps, pc, index, clusters, totalDistance, yearString, yearResult,
                   span, stops, routeVars, formatVars, request, parsedResponse, calls, appVars>>

\* A step fails the range test of lines 120-126.
POSTInvalidCoordinates ==
    /\ response = null
    /\ request = GoodRequest
    /\ ~InvalidStructure(parsedResponse)
    /\ ValidateFrom(parsedResponse.steps.items, 0) = "Invalid coordinates"
    /\ response' = <<ErrorResponse(500)>>
    /\ UNCHANGED <<steps, pc, index, clusters, totalDistance, yearString, yearResult,
                   span, stops, routeVars, formatVars, request, parsedResponse, calls, appVars>>

\* return json(parsedResponse);
POSTSuccess ==
    /\ response = null
    /\ request = GoodRequest
    /\ ~InvalidStructure(parsedResponse)
    /\ ValidateFrom(parsedResponse.steps.items, 0) = "ok"
    /\ response' = <<JsonResponse(parsedResponse)>>
    /\ UNCHANGED <<steps, pc, index, clusters, totalDistance, yearString, yearResult,
                   span, stops, routeVars, formatVars, request, parsedResponse, calls, appVars>>

NextGenerate ==
    \/ POSTMissingDish
    \/ POSTNoApiKey
    \/ POSTNoText
    \/ POSTParseFailure
    \/ POSTInvalidStructure
    \/ POSTInvalidStep
    \/ POSTInvalidCoordinates
    \/ POSTSuccess

SpecGenerate == InitGenerate /\ [][NextGenerate]_vars

----------------------------------------------------------------------------
(* toSlug, fromSlug, updateUrlWithDish (routes/[[slug]]/+page.svelte)      *)

\* The variables of the statistics, route and endpoint models, and their
\* values in the specifications of the page, the globe and the featured
\* endpoint, which do not use them.
libraryVars == <<steps, pc, index, clusters, totalDistance, yearString, yearResult,
                 span, stops, routeVars, formatVars, generateVars, calls>>

LibraryIdle ==
    /\ steps = <<>>
    /\ pc = "idle"
    /\ index = 0
    /\ clusters = <<>>
    /\ totalDistance = null
    /\ yearString = <<>>
    /\ yearResult = null
    /\ span = null
    /\ stops = null
    /\ RouteIdle
    /\ FormatIdle
    /\ GenerateIdle
    /\ calls = NoCalls

LowerCaseChars == Range(LowerCase)

\* String.prototype.toUpperCase
toUpperCase(s) ==
    [i \in 1..Len(s) |->
        IF s[i] \in LowerCaseChars
        THEN UpperCase[CHOOSE n \in 1..26 : LowerCase[n] = s[i]]
        ELSE s[i]]

RECURSIVE trimStart(_)
trimStart(s) ==
    IF s # <<>> /\ IsSpace(s[1]) THEN trimStart(Tail(s)) ELSE s

RECURSIVE trimEnd(_)
trimEnd(s) ==
    IF s # <<>> /\ IsSpace(s[Len(s)]) THEN trimEnd(SubSeq(s, 1, Len(s) - 1)) ELSE s

\* String.prototype.trim
trim(s) == trimEnd(trimStart(s))

\* .replace(/[^a-z0-9\s-]/g, "")
removeSpecialChars(s) ==
    SelectSeq(s, LAMBDA c : c \in LowerCaseChars \/ IsDigit(c) \/ IsSpace(c) \/ c = "-")

\* .replace(/\s+/g, "-"): every maximal run of white space becomes one "-"
RECURSIVE replaceSpaces(_)
replaceSpaces(s) ==
    IF s = <<>> THEN <<>>
    ELSE IF IsSpace(s[1])
         THEN IF Len(s) >= 2 /\ IsSpace(s[2])
              THEN replaceSpaces(Tail(s))
              ELSE <<"-">> \o replaceSpaces(Tail(s))
    ELSE <<s[1]>> \o replaceSpaces(Tail(s))

\* .replace(/-+/g, "-"): every maximal run of hyphens becomes one "-"
RECURSIVE collapseHyphens(_)
collapseHyphens(s) ==
    IF s = <<>> THEN <<>>
    ELSE IF s[1] = "-" /\ Len(s) >= 2 /\ s[2] = "-"
         THEN collapseHyphens(Tail(s))
    ELSE <<s[1]>> \o collapseHyphens(Tail(s))

toSlug(dishName) ==
    collapseHyphens(replaceSpaces(removeSpecialChars(trim(toLowerCase(dishName)))))

\* slug.split("-"): the pieces between the hyphens, empty ones included.
RECURSIVE split(_)
split(s) ==
    IF \E i \in 1..Len(s) : s[i] = "-"
    THEN LET i == CHOOSE i \in 1..Len(s) :
                     s[i] = "-" /\ \A j \in 1..(i - 1) : s[j] # "-"
         IN  <<SubSeq(s, 1, i - 1)>> \o split(SubSeq(s, i + 1, Len(s)))
    ELSE <<s>>

\* word.charAt(0).toUpperCase() + word.slice(1)
capitalize(word) ==
    IF word = <<>> THEN <<>> ELSE toUpperCase(<<word[1]>>) \o Tail(word)

\* words.join(" ")
RECURSIVE join(_)
join(words) ==
    IF Len(words) = 1 THEN words[1]
    ELSE words[1] \o <<" ">> \o join(Tail(words))

fromSlug(slug) ==
    join([w \in 1..Len(split(slug)) |-> capitalize(split(slug)[w])])

\* The session history of the tab: its entries (each the path without the
\* leading "/") and the position of the current one.
SessionHistory(path) == [entries |-> <<path>>, current |-> 1]

\* window.location.pathname.slice(1)
pathSlug(history) == history.entries[history.current]

\* window.history.pushState({}, "", `/${slug}`): the entries after the
\* current one are dropped and the new one becomes current.
pushState(history, slug) ==
    [entries |-> Append(SubSeq(history.entries, 1, history.current), slug),
     current |-> history.current + 1]

\* The session history after updateUrlWithDish(dishName).
updateUrlWithDish(history, dishName) ==
    LET slug == toSlug(dishName)
        currentSlug == pathSlug(history)
    IN  IF currentSlug # slug THEN pushState(history, slug) ELSE history

----------------------------------------------------------------------------
(* Specification of the slug round trip: a dish is searched from the home  *)
(* page and its history loaded, then the page is loaded from the URL this  *)
(* left (deep link, or popstate on that entry).                            *)

MaxNameTokens == 3

NameTokens ==
    { <<"P">>, <<"h", "o">>, <<" ">>, <<"-">>, <<"!">>, <<"2">> }

\* What is typed into the search box.
DishNames == {Concat(ts) : ts \in SeqsUpTo(NameTokens, MaxNameTokens)}

InitSlug ==
    /\ slugs \in {[stage |-> "home", searchQuery |-> n, history |-> SessionHistory(<<>>),
                   shown |-> SessionHistory(<<>>)] : n \in DishNames}
    /\ page = null
    /\ browser = null
    /\ globe = null
    /\ featured = null
    /\ LibraryIdle

\* handleSearch and fetchDishHistory(searchQuery) with nothing to search:
\* if (!dishName.trim() || isSearching) return;
searchIgnored ==
    /\ slugs.stage = "home"
    /\ trim(slugs.searchQuery) = <<>>
    /\ UNCHANGED vars

\* fetchDishHistory(searchQuery) with a successful response:
\* updateUrlWithDish(dishName.trim())
searchLoaded ==
    /\ slugs.stage = "home"
    /\ trim(slugs.searchQuery) # <<>>
    /\ LET history == updateUrlWithDish(slugs.history, trim(slugs.searchQuery))
       IN  slugs' = [slugs EXCEPT !.stage = "searched", !.history = history,
                                  !.shown = history]
    /\ UNCHANGED <<libraryVars, page, browser, globe, featured>>

\* onMount or handlePopState on the home path: no dish is loaded.
slugEmpty ==
    /\ slugs.stage = "searched"
    /\ pathSlug(slugs.history) = <<>>
    /\ slugs' = [slugs EXCEPT !.stage = "loaded", !.searchQuery = <<>>]
    /\ UNCHANGED <<libraryVars, page, browser, globe, featured>>

\* onMount or handlePopState on a dish path whose name is blank:
\* fetchDishHistory returns at once.
slugIgnored ==
    /\ slugs.stage = "searched"
    /\ pathSlug(slugs.history) # <<>>
    /\ trim(fromSlug(pathSlug(slugs.history))) = <<>>
    /\ slugs' = [slugs EXCEPT !.stage = "loaded",
                              !.searchQuery = fromSlug(pathSlug(slugs.history))]
    /\ UNCHANGED <<libraryVars, page, browser, globe, featured>>

\* onMount or handlePopState on a dish path: searchQuery = fromSlug(pathSlug),
\* fetchDishHistory(dishName) with a successful response.
slugLoaded ==
    /\ slugs.stage = "searched"
    /\ pathSlug(slugs.history) # <<>>
    /\ LET dishName == fromSlug(pathSlug(slugs.history))
       IN  /\ trim(dishName) # <<>>
           /\ slugs' = [slugs EXCEPT !.stage = "loaded", !.searchQuery = dishName,
                            !.history = updateUrlWithDish(slugs.history, trim(dishName))]
    /\ UNCHANGED <<libraryVars, page, browser, globe, featured>>

NextSlug ==
    \/ searchIgnored
    \/ searchLoaded
    \/ slugEmpty
    \/ slugIgnored
    \/ slugLoaded

SpecSlug == InitSlug /\ [][NextSlug]_vars

----------------------------------------------------------------------------
(* The page component (routes/[[slug]]/+page.svelte): searches, history    *)
(* requests, URL handling and playback.                                    *)
(*                                                                         *)
(* `page` holds the component's variables under their names; dishHistory   *)
(* is <<>> for null or <<h>> with h.name the dish asked for and h.length   *)
(* the value of dishHistory.steps.length.  `browser` holds what the        *)
(* component sees of the browser: Date.now(), the animation frame          *)
(* callbacks requested and not yet run, the /api/generate requests not     *)
(* yet settled and the session history.  Times are in milliseconds.        *)
(* wasPlaying, isMobile and the other variables that only the template     *)
(* reads are left out; the progress bar is taken as rendered.              *)

\* const STEP_DURATION = 4000;
STEP_DURATION == 4000

\* requestAnimationFrame(animateProgress): the handle returned, one that no
\* pending callback has.
requestAnimationFrame(b) ==
    CHOOSE id \in 1..(Cardinality(b.frames) + 1) : id \notin b.frames

\* cancelAnimationFrame(id)
cancelAnimationFrame(b, id) == [b EXCEPT !.frames = @ \ {id}]

\* scrollToCard(index): isManualScrolling = true; activeCardIndex = index;
\* the timeout that ends the manual scroll is started anew.
scrollToCard(p, idx) ==
    [p EXCEPT !.isManualScrolling = TRUE, !.activeCardIndex = idx]

\* Variant: the request is started whether or not one is in flight.
fetchDishHistoryUnguarded(p, b, dishName) ==
    IF trim(dishName) = <<>> THEN [page |-> p, browser |-> b]
    ELSE [page |-> [p EXCEPT !.isSearching = TRUE, !.isLoadingHistory = TRUE,
                             !.error = null, !.dishHistory = null,
                             !.hasSearched = TRUE, !.activeCardIndex = -1],
          browser |-> [b EXCEPT !.requests = Append(@, trim(dishName))]]

\* fetchDishHistory(dishName) up to its first await: the page and the
\* browser once fetch("/api/generate", ...) has been called, or unchanged
\* when the function returns at once.
fetchDishHistory(p, b, dishName) ==
    IF trim(dishName) = <<>> \/ p.isSearching THEN [page |-> p, browser |-> b]
    ELSE [page |-> [p EXCEPT !.isSearching = TRUE, !.isLoadingHistory = TRUE,
                             !.error = null, !.dishHistory = null,
                             !.hasSearched = TRUE, !.activeCardIndex = -1],
          browser |-> [b EXCEPT !.requests = Append(@, trim(dishName))]]

\* handlePause(); playbackIntervalId is never set and stays null.
handlePause(p, b) ==
    [page |-> [p EXCEPT !.isPlaying = FALSE, !.playbackAnimationId = null],
     browser |-> IF p.playbackAnimationId # null
                 THEN cancelAnimationFrame(b, p.playbackAnimationId[1]) ELSE b]

\* The steps of the history shown; called where dishHistory is not null.
Length(p) == p.dishHistory[1].length

\* dishHistory.steps.length * STEP_DURATION
totalDuration(p) == Length(p) * STEP_DURATION

----------------------------------------------------------------------------
(* Specification of the page: the component is mounted on the home path    *)
(* or on a dish path, and then users, timers, frames and responses act.    *)

MaxTicks == 4      \* Date.now() advances at most this many step durations
MaxEntries == 2    \* the session history holds at most this many entries

\* The dishes searched for, clicked or linked to.
PageDishes == { <<"P", "h", "o">> }

\* dishHistory.steps.length of the answers.
StepCounts == {0, 4}

\* Where the progress bar is clicked: clickX / rect.width, in hundredths.
ClickPercents == {0, 50, 100}

InitialPage ==
    [searchQuery |-> <<>>, isSearching |-> FALSE, hasSearched |-> FALSE,
     dishHistory |-> null, error |-> null, activeCardIndex |-> -1,
     isLoadingHistory |-> FALSE, isPlaying |-> FALSE,
     playbackAnimationId |-> null, playbackStartTime |-> 0, smoothProgress |-> 0,
     isManualScrolling |-> FALSE, mounted |-> FALSE]

InitPage ==
    /\ page = InitialPage
    /\ browser \in {[now |-> 0, frames |-> {}, requests |-> <<>>,
                     history |-> SessionHistory(path)] :
                        path \in {<<>>} \cup {toSlug(d) : d \in PageDishes}}
    /\ slugs = null
    /\ globe = null
    /\ featured = null
    /\ LibraryIdle

\* The controls of a loaded history are rendered.
HistoryShown == page.hasSearched /\ page.dishHistory # null

\* A push fits into the bounded session history.
CanPush == Len(SubSeq(browser.history.entries, 1, browser.history.current)) < MaxEntries

Min(a, b) == IF a < b THEN a ELSE b

Max(a, b) == IF a > b THEN a ELSE b

\* s without its k-th element.
RemoveAt(s, k) == SubSeq(s, 1, k - 1) \o SubSeq(s, k + 1, Len(s))

\* handlePlay() past its first line, for a history with steps.
handlePlay(p, b) ==
    LET p1 == [p EXCEPT !.isPlaying = TRUE]
        p2 == IF p1.activeCardIndex >= Length(p1) - 1
              THEN [scrollToCard([p1 EXCEPT !.activeCardIndex = 0], 0)
                       EXCEPT !.smoothProgress = 0]
              ELSE p1
        id == requestAnimationFrame(b)
    IN  [page |-> [p2 EXCEPT !.playbackStartTime =
                                 b.now - (p2.smoothProgress * totalDuration(p2)) \div 100,
                             !.playbackAnimationId = <<id>>],
         browser |-> [b EXCEPT !.frames = @ \cup {id}]]

\* handleReset() and handleStop(), which have the same body.
handleReset(p, b) ==
    LET r == handlePause(p, b)
    IN  [page |-> [scrollToCard([r.page EXCEPT !.activeCardIndex = 0], 0)
                      EXCEPT !.smoothProgress = 0],
         browser |-> r.browser]

\* handleProgressClick(e) for a click at `percent` hundredths of the bar.
handleProgressClick(p, b, percent) ==
    LET stepIndex == (percent * Length(p)) \div 100
        clampedIndex == Max(0, Min(stepIndex, Length(p) - 1))
        p1 == [scrollToCard([p EXCEPT !.activeCardIndex = clampedIndex], clampedIndex)
                  EXCEPT !.smoothProgress = percent]
    IN  IF p1.isPlaying
        THEN [p1 EXCEPT !.playbackStartTime = b.now - (percent * totalDuration(p1)) \div 100]
        ELSE p1

\* animateProgress() run as an animation frame callback.  For a history
\* without steps totalDuration is 0 and the progress computed is NaN or
\* 100; the else branch then runs and sets smoothProgress to 0.
animateProgress(p, b) ==
    IF p.dishHistory = null \/ ~p.isPlaying THEN [page |-> p, browser |-> b]
    ELSE LET elapsed == b.now - p.playbackStartTime
             progress == IF totalDuration(p) = 0 THEN 100
                         ELSE Min((elapsed * 100) \div totalDuration(p), 100)
             expectedStep == elapsed \div STEP_DURATION
             p1 == [p EXCEPT !.smoothProgress = progress]
             p2 == IF expectedStep # p1.activeCardIndex /\ expectedStep < Length(p1)
                   THEN scrollToCard(p1, expectedStep) ELSE p1
             id == requestAnimationFrame(b)
             r == handlePause(p2, b)
         IN  IF elapsed < totalDuration(p)
             THEN [page |-> [p2 EXCEPT !.playbackAnimationId = <<id>>],
                   browser |-> [b EXCEPT !.frames = @ \cup {id}]]
             ELSE [page |-> scrollToCard([r.page EXCEPT !.smoothProgress = 0,
                                                       !.activeCardIndex = 0], 0),
                   browser |-> r.browser]

\* The assignments of resetView(), and of handlePopState on the home path.
resetFields(p) ==
    [p EXCEPT !.hasSearched = FALSE, !.dishHistory = null, !.searchQuery = <<>>,
              !.error = null, !.activeCardIndex = -1]

\* onMount on the home path.
onMountHome ==
    /\ ~page.mounted
    /\ pathSlug(browser.history) = <<>>
    /\ page' = [page EXCEPT !.mounted = TRUE]
    /\ UNCHANGED <<libraryVars, slugs, browser, globe, featured>>

\* onMount on a dish path (deep link).
onMountDeepLink ==
    /\ ~page.mounted
    /\ pathSlug(browser.history) # <<>>
    /\ LET dishName == fromSlug(pathSlug(browser.history))
           r == fetchDishHistory([page EXCEPT !.mounted = TRUE, !.searchQuery = dishName],
                                 browser, dishName)
       IN  /\ page' = r.page
           /\ browser' = r.browser
    /\ UNCHANGED <<libraryVars, slugs, globe, featured>>

\* The user edits the search box (bind:value); it is disabled while a
\* search is under way.
inputSearchQuery ==
    /\ page.mounted
    /\ ~page.isSearching
    /\ \E q \in PageDishes \cup {<<>>} : page' = [page EXCEPT !.searchQuery = q]
    /\ UNCHANGED <<libraryVars, slugs, browser, globe, featured>>

\* handleSearch(e): if (!searchQuery.trim() || isSearching) return;
handleSearchIgnored ==
    /\ page.mounted
    /\ trim(page.searchQuery) = <<>> \/ page.isSearching
    /\ UNCHANGED vars

\* handleSearch(e): await fetchDishHistory(searchQuery)
handleSearch ==
    /\ page.mounted
    /\ ~(trim(page.searchQuery) = <<>> \/ page.isSearching)
    /\ LET r == fetchDishHistory(page, browser, page.searchQuery)
       IN  /\ page' = r.page
           /\ browser' = r.browser
    /\ UNCHANGED <<libraryVars, slugs, globe, featured>>

\* handleFeaturedClick(dish): if (isLoadingHistory) return;
handleFeaturedClickIgnored ==
    /\ page.mounted
    /\ page.isLoadingHistory
    /\ UNCHANGED vars

\* handleFeaturedClick(dish): searchQuery = dish.name; fetchDishHistory(dish.name)
handleFeaturedClick ==
    /\ page.mounted
    /\ ~page.isLoadingHistory
    /\ \E dish \in PageDishes :
          LET r == fetchDishHistory([page EXCEPT !.searchQuery = dish], browser, dish)
          IN  /\ page' = r.page
              /\ browser' = r.browser
    /\ UNCHANGED <<libraryVars, slugs, globe, featured>>

\* The rest of fetchDishHistory when the response is ok: dishHistory is set
\* (and the $effect on it, when the cards panel is rendered, sets
\* activeCardIndex = 0), updateUrlWithDish, and the finally block.
fetchDishHistoryOk ==
    /\ \E k \in 1..Len(browser.requests) : \E n \in StepCounts :
          LET dishName == browser.requests[k]
              history == updateUrlWithDish(browser.history, dishName)
          IN  /\ history # browser.history => CanPush
              /\ page' = [page EXCEPT
                            !.dishHistory = <<[name |-> dishName, length |-> n]>>,
                            !.activeCardIndex = IF page.hasSearched THEN 0 ELSE @,
                            !.isSearching = FALSE,
                            !.isLoadingHistory = FALSE]
              /\ browser' = [browser EXCEPT !.requests = RemoveAt(@, k),
                                            !.history = history]
    /\ UNCHANGED <<libraryVars, slugs, globe, featured>>

\* The rest of fetchDishHistory when the response is not ok or fetch
\* fails: the catch block and the finally block.
fetchDishHistoryFailed ==
    /\ \E k \in 1..Len(browser.requests) :
          /\ page' = [page EXCEPT
                        !.error = <<"Failed to generate history">>,
                        !.isSearching = FALSE,
                        !.isLoadingHistory = FALSE]
          /\ browser' = [browser EXCEPT !.requests = RemoveAt(@, k)]
    /\ UNCHANGED <<libraryVars, slugs, globe, featured>>

\* resetView(), from the back button or the logo (both need hasSearched).
resetView ==
    /\ page.mounted
    /\ page.hasSearched
    /\ pathSlug(browser.history) # <<>> => CanPush
    /\ page' = resetFields(page)
    /\ browser' = IF pathSlug(browser.history) # <<>>
                  THEN [browser EXCEPT !.history = pushState(@, <<>>)]
                  ELSE browser
    /\ UNCHANGED <<libraryVars, slugs, globe, featured>>

\* Back or forward in the browser to an entry of a dish, then
\* handlePopState.
handlePopStateDish ==
    /\ page.mounted
    /\ \E i \in 1..Len(browser.history.entries) :
          /\ i # browser.history.current
          /\ browser.history.entries[i] # <<>>
          /\ LET dishName == fromSlug(browser.history.entries[i])
                 r == fetchDishHistory([page EXCEPT !.searchQuery = dishName],
                                       [browser EXCEPT !.history.current = i], dishName)
             IN  /\ page' = r.page
                 /\ browser' = r.browser
    /\ UNCHANGED <<libraryVars, slugs, globe, featured>>

\* Back or forward in the browser to an entry of the home path, then
\* handlePopState.
handlePopStateHome ==
    /\ page.mounted
    /\ \E i \in 1..Len(browser.history.entries) :
          /\ i # browser.history.current
          /\ browser.history.entries[i] = <<>>
          /\ page' = resetFields(page)
          /\ browser' = [browser EXCEPT !.history.current = i]
    /\ UNCHANGED <<libraryVars, slugs, globe, featured>>

\* The play button, shown as "Play": handlePlay() on a history without
\* steps returns at once.
handlePlayIgnored ==
    /\ HistoryShown
    /\ ~page.isPlaying
    /\ Length(page) = 0
    /\ UNCHANGED vars

\* The play button, shown as "Play": handlePlay().
handlePlayClick ==
    /\ HistoryShown
    /\ ~page.isPlaying
    /\ Length(page) # 0
    /\ LET r == handlePlay(page, browser)
       IN  /\ page' = r.page
           /\ browser' = r.browser
    /\ UNCHANGED <<libraryVars, slugs, globe, featured>>

\* The play button, shown as "Pause": handlePause().
handlePauseClick ==
    /\ HistoryShown
    /\ page.isPlaying
    /\ LET r == handlePause(page, browser)
       IN  /\ page' = r.page
           /\ browser' = r.browser
    /\ UNCHANGED <<libraryVars, slugs, globe, featured>>

\* The reset button: handleReset().
handleResetClick ==
    /\ HistoryShown
    /\ LET r == handleReset(page, browser)
       IN  /\ page' = r.page
           /\ browser' = r.browser
    /\ UNCHANGED <<libraryVars, slugs, globe, featured>>

\* The stop button: handleStop().
handleStopClick ==
    /\ HistoryShown
    /\ LET r == handleReset(page, browser)
       IN  /\ page' = r.page
           /\ browser' = r.browser
    /\ UNCHANGED <<libraryVars, slugs, globe, featured>>

\* A click on the progress bar.
handleProgressClickAt ==
    /\ HistoryShown
    /\ \E percent \in ClickPercents :
          page' = handleProgressClick(page, browser, percent)
    /\ UNCHANGED <<libraryVars, slugs, browser, globe, featured>>

\* handleCardClick(index) and handleMarkerClick(index): scrollToCard(index).
handleCardClick ==
    /\ HistoryShown
    /\ \E idx \in 0..(Length(page) - 1) : page' = scrollToCard(page, idx)
    /\ UNCHANGED <<libraryVars, slugs, browser, globe, featured>>

\* The timeout of scrollToCard, 800 ms after the last scrollToCard.
scrollTimeout ==
    /\ page.isManualScrolling
    /\ page' = [page EXCEPT !.isManualScrolling = FALSE]
    /\ UNCHANGED <<libraryVars, slugs, browser, globe, featured>>

\* The IntersectionObserver callback during a programmatic scroll or
\* playback: nothing changes.
observerIgnored ==
    /\ HistoryShown
    /\ page.isManualScrolling \/ page.isPlaying
    /\ UNCHANGED vars

\* The IntersectionObserver callback when the user scrolls the cards.
observerCallback ==
    /\ HistoryShown
    /\ ~(page.isManualScrolling \/ page.isPlaying)
    /\ \E idx \in 0..(Length(page) - 1) : page' = [page EXCEPT !.activeCardIndex = idx]
    /\ UNCHANGED <<libraryVars, slugs, browser, globe, featured>>

\* The browser runs a requested animation frame callback.
animationFrame ==
    /\ \E id \in browser.frames :
          LET r == animateProgress(page, [browser EXCEPT !.frames = @ \ {id}])
          IN  /\ page' = r.page
              /\ browser' = r.browser
    /\ UNCHANGED <<libraryVars, slugs, globe, featured>>

\* Time passes: Date.now() grows by one step duration.
tick ==
    /\ browser.now < MaxTicks * STEP_DURATION
    /\ browser' = [browser EXCEPT !.now = @ + STEP_DURATION]
    /\ UNCHANGED <<libraryVars, slugs, page, globe, featured>>

NextPage ==
    \/ onMountHome
    \/ onMountDeepLink
    \/ inputSearchQuery
    \/ handleSearchIgnored
    \/ handleSearch
    \/ handleFeaturedClickIgnored
    \/ handleFeaturedClick
    \/ fetchDishHistoryOk
    \/ fetchDishHistoryFailed
    \/ resetView
    \/ handlePopStateDish
    \/ handlePopStateHome
    \/ handlePlayIgnored
    \/ handlePlayClick
    \/ handlePauseClick
    \/ handleResetClick
    \/ handleStopClick
    \/ handleProgressClickAt
    \/ handleCardClick
    \/ scrollTimeout
    \/ observerIgnored
    \/ observerCallback
    \/ animationFrame
    \/ tick

SpecPage == InitPage /\ [][NextPage]_vars

----------------------------------------------------------------------------
(* Auto-rotation of the globe (map component): startAutoRotate,            *)
(* stopAutoRotate, resetInactivityTimer, handleUserInteraction and the     *)
(* $effect on the featured dishes.                                         *)
(*                                                                         *)
(* `globe` holds the component's variables under their names (map is TRUE  *)
(* when the Map object is set, dishes is featuredDishes.length > 0) and    *)
(* what the component has requested of the browser: the animation frames   *)
(* not yet run, the time left on the inactivity timeout (<<>> when none is *)
(* pending), the times left on the timeouts of the $effect, and the number *)
(* of "styledata" listeners waiting.  Times are in milliseconds.           *)

\* setTimeout(..., 10000) of resetInactivityTimer
InactivityDelay == 10000

\* setTimeout(..., 2500) of the $effect on the featured dishes
RotateDelay == 2500

\* startAutoRotate()
startAutoRotate(g) ==
    IF ~g.map \/ g.autoRotateRafId # null THEN g
    ELSE LET id == CHOOSE id \in 1..(Cardinality(g.frames) + 1) : id \notin g.frames
         IN  [g EXCEPT !.autoRotateEnabled = TRUE, !.autoRotateRafId = <<id>>,
                       !.frames = @ \cup {id}]

\* rotate(), run as an animation frame callback.
rotate(g) ==
    IF ~g.autoRotateEnabled \/ ~g.map THEN [g EXCEPT !.autoRotateRafId = null]
    ELSE LET id == CHOOSE id \in 1..(Cardinality(g.frames) + 1) : id \notin g.frames
         IN  [g EXCEPT !.autoRotateRafId = <<id>>, !.frames = @ \cup {id}]

\* stopAutoRotate()
stopAutoRotate(g) ==
    IF g.autoRotateRafId # null
    THEN [g EXCEPT !.autoRotateEnabled = FALSE, !.autoRotateRafId = null,
                   !.frames = @ \ {g.autoRotateRafId[1]}]
    ELSE [g EXCEPT !.autoRotateEnabled = FALSE]

\* resetInactivityTimer(): the pending timeout is cleared and a new one set.
resetInactivityTimer(g) == [g EXCEPT !.inactivityTimer = <<InactivityDelay>>]

\* The branch of the $effect that adds the featured markers, eases the map
\* and sets the timeout that starts the rotation.
showFeatured(g) == [g EXCEPT !.rotateTimers = Append(@, RotateDelay)]

\* The $effect on featuredDishes.length and mode.
featuredEffect(g) ==
    IF g.map /\ g.mode = "discovery" /\ g.dishes
    THEN IF g.styleLoaded THEN showFeatured(g)
         ELSE [g EXCEPT !.styledataListeners = @ + 1]
    ELSE IF g.mode = "history" THEN stopAutoRotate(g)
    ELSE g

----------------------------------------------------------------------------
(* Specification of the globe: the component is mounted in discovery mode  *)
(* with no featured dishes yet; then the dishes arrive, the mode changes,  *)
(* the user touches the map, and timeouts and frames run.                  *)

MaxTimeouts == 2   \* timeouts and listeners of the $effect pending at a time

InitGlobe ==
    /\ globe = [map |-> TRUE, styleLoaded |-> FALSE, mode |-> "discovery",
                dishes |-> FALSE, autoRotateEnabled |-> FALSE,
                autoRotateRafId |-> null, frames |-> {},
                inactivityTimer |-> null, rotateTimers |-> <<>>,
                styledataListeners |-> 0]
    /\ slugs = null
    /\ page = null
    /\ browser = null
    /\ featured = null
    /\ LibraryIdle

\* The $effect can register one more timeout or listener.
CanSchedule == Len(globe.rotateTimers) + globe.styledataListeners < MaxTimeouts

\* The featured dishes arrive (the page's fetchFeaturedDishes): the $effect
\* runs.
featuredDishesLoaded ==
    /\ ~globe.dishes
    /\ CanSchedule
    /\ globe' = featuredEffect([globe EXCEPT !.dishes = TRUE])
    /\ UNCHANGED <<libraryVars, slugs, page, browser, featured>>

\* The page changes the mode prop: the $effect runs.
modeChanged ==
    /\ (globe.mode = "history" /\ globe.dishes) => CanSchedule
    /\ globe' = featuredEffect([globe EXCEPT !.mode = IF @ = "discovery" THEN "history"
                                                       ELSE "discovery"])
    /\ UNCHANGED <<libraryVars, slugs, page, browser, featured>>

\* The map's style has loaded: the "styledata" listeners of the $effect run.
styledata ==
    /\ ~globe.styleLoaded
    /\ globe' = [globe EXCEPT !.styleLoaded = TRUE, !.styledataListeners = 0,
                    !.rotateTimers = @ \o [k \in 1..globe.styledataListeners |-> RotateDelay]]
    /\ UNCHANGED <<libraryVars, slugs, page, browser, featured>>

\* mousedown, touchstart or wheel on the map container.
handleUserInteraction ==
    /\ globe' = resetInactivityTimer(stopAutoRotate(globe))
    /\ UNCHANGED <<libraryVars, slugs, page, browser, featured>>

\* The timeout of resetInactivityTimer runs.
inactivityTimeout ==
    /\ globe.inactivityTimer = <<0>>
    /\ LET g == [globe EXCEPT !.inactivityTimer = null]
       IN  globe' = IF g.mode = "discovery" /\ ~g.autoRotateEnabled
                    THEN startAutoRotate(g) ELSE g
    /\ UNCHANGED <<libraryVars, slugs, page, browser, featured>>

\* A timeout of the $effect runs: if (mode === "discovery") startAutoRotate();
rotateTimeout ==
    /\ \E k \in 1..Len(globe.rotateTimers) :
          /\ globe.rotateTimers[k] = 0
          /\ LET g == [globe EXCEPT !.rotateTimers = RemoveAt(@, k)]
             IN  globe' = IF g.mode = "discovery" THEN startAutoRotate(g) ELSE g
    /\ UNCHANGED <<libraryVars, slugs, page, browser, featured>>

\* The browser runs a requested animation frame callback.
rotateFrame ==
    /\ \E id \in globe.frames :
          globe' = rotate([globe EXCEPT !.frames = @ \ {id}])
    /\ UNCHANGED <<libraryVars, slugs, page, browser, featured>>

\* Time passes: 2500 ms, when no pending timeout is due.
wait ==
    /\ globe.inactivityTimer # <<0>>
    /\ \A k \in 1..Len(globe.rotateTimers) : globe.rotateTimers[k] # 0
    /\ globe.inactivityTimer # null \/ globe.rotateTimers # <<>>
    /\ globe' = [globe EXCEPT
                    !.inactivityTimer = IF @ = null THEN null ELSE <<@[1] - RotateDelay>>,
                    !.rotateTimers = [k \in 1..Len(@) |-> @[k] - RotateDelay]]
    /\ UNCHANGED <<libraryVars, slugs, page, browser, featured>>

NextGlobe ==
    \/ featuredDishesLoaded
    \/ modeChanged
    \/ styledata
    \/ handleUserInteraction
    \/ inactivityTimeout
    \/ rotateTimeout
    \/ rotateFrame
    \/ wait

SpecGlobe == InitGlobe /\ [][NextGlobe]_vars

----------------------------------------------------------------------------
(* The featured endpoint (routes/api/featured/+server.ts):                 *)
(* selectRandomDishes and GET.                                             *)
(*                                                                         *)
(* `featured` holds the position in selectRandomDishes (pc), the loop      *)
(* variables under their names (region is the position of the for..of      *)
(* loop in REGIONS, 0-based), the local `selected` and the number of       *)
(* Math.random() results so far that were not 0.  A result of              *)
(* Math.random() is given in hundredths.                                   *)

\* const DISH_POOL: the regions in the order of their keys, each with the
\* names of its dishes (diacritics left out).
DISH_POOL ==
    <<
       [region |-> "northAmericaWest",
        dishes |-> <<"Tacos al Pastor", "Mole Poblano", "Chilaquiles", "California Roll">>],
       [region |-> "northAmericaEast",
        dishes |-> <<"Poutine", "New York Pizza", "Lobster Roll", "Bagels">>],
       [region |-> "southAmericaWest",
        dishes |-> <<"Ceviche", "Empanadas", "Asado", "Pastel de Choclo">>],
       [region |-> "southAmericaEast",
        dishes |-> <<"Feijoada", "Acai Bowl", "Pao de Queijo", "Chivito">>],
       [region |-> "northernEurope",
        dishes |-> <<"Fish and Chips", "Croissant", "Waffles", "Smorrebrod">>],
       [region |-> "southernEurope",
        dishes |-> <<"Pizza Margherita", "Paella", "Moussaka", "Pastel de Nata">>],
       [region |-> "africaSouth",
        dishes |-> <<"Bobotie", "Bunny Chow", "Biltong", "Potjiekos">>],
       [region |-> "africaWest",
        dishes |-> <<"Jollof Rice", "Injera", "Bole", "Suya">>],
       [region |-> "middleEast",
        dishes |-> <<"Hummus", "Shawarma", "Falafel", "Kebabs">>],
       [region |-> "southAsia",
        dishes |-> <<"Biryani", "Butter Chicken", "Dosa", "Nihari">>],
       [region |-> "eastAsia",
        dishes |-> <<"Sushi", "Dim Sum", "Pho", "Pad Thai", "Ramen">>],
       [region |-> "oceania",
        dishes |-> <<"Meat Pies", "Pavlova", "Lamingtons", "Vegemite Toast">>],
       [region |-> "centralAmericaCaribbean",
        dishes |-> <<"Gallo Pinto", "Jerk Chicken", "Pupusas", "Ropa Vieja">>],
       [region |-> "easternEurope",
        dishes |-> <<"Borscht", "Pierogi", "Beef Stroganoff", "Goulash">>],
       [region |-> "centralAsia",
        dishes |-> <<"Plov", "Manti", "Lagman", "Shashlik">>] >>

\* const REGIONS = Object.keys(DISH_POOL);
REGIONS == [k \in 1..Len(DISH_POOL) |-> DISH_POOL[k].region]

\* Math.floor(Math.random() * n) for the result `random` of Math.random()
randomFloor(random, n) == (random * n) \div 100

\* Variant: selected[i] = selected[j] alone.
swapOverwriting(s, i, j) == [s EXCEPT ![i + 1] = s[j + 1]]

\* [selected[i], selected[j]] = [selected[j], selected[i]] (0-based i, j)
swap(s, i, j) == [s EXCEPT ![i + 1] = s[j + 1], ![j + 1] = s[i + 1]]

----------------------------------------------------------------------------
(* Specification of the featured endpoint: GET calls selectRandomDishes,   *)
(* one loop iteration at a time, for every result of Math.random() among   *)
(* RandomValues with at most MaxNonZero results other than 0.              *)

MaxNonZero == 2

\* Results of Math.random(), in hundredths: 0 and 0.99.
RandomValues == {0, 99}

InitFeatured ==
    /\ featured = [pc |-> "select", region |-> 0, i |-> 0, selected |-> <<>>,
                   nonZero |-> 0, response |-> null]
    /\ slugs = null
    /\ page = null
    /\ browser = null
    /\ globe = null
    /\ LibraryIdle

\* The results Math.random() may give next.
NextRandom == {r \in RandomValues : r = 0 \/ featured.nonZero < MaxNonZero}

Drawn(r) == IF r = 0 THEN featured.nonZero ELSE featured.nonZero + 1

\* One iteration of for (const region of REGIONS).
selectDish ==
    /\ featured.pc = "select"
    /\ featured.region < Len(REGIONS)
    /\ \E r \in NextRandom :
          LET dishes == DISH_POOL[featured.region + 1].dishes
              randomIndex == randomFloor(r, Len(dishes))
          IN  featured' = [featured EXCEPT
                              !.selected = Append(@, dishes[randomIndex + 1]),
                              !.region = @ + 1,
                              !.nonZero = Drawn(r)]
    /\ UNCHANGED <<libraryVars, slugs, page, browser, globe>>

\* The end of the first loop and let i = selected.length - 1.
shuffleStart ==
    /\ featured.pc = "select"
    /\ featured.region = Len(REGIONS)
    /\ featured' = [featured EXCEPT !.pc = "shuffle", !.i = Len(featured.selected) - 1]
    /\ UNCHANGED <<libraryVars, slugs, page, browser, globe>>

\* One iteration of for (let i = selected.length - 1; i > 0; i--).
shuffleSwap ==
    /\ featured.pc = "shuffle"
    /\ featured.i > 0
    /\ \E r \in NextRandom :
          LET j == randomFloor(r, featured.i + 1)
          IN  featured' = [featured EXCEPT
                              !.selected = swap(@, featured.i, j),
                              !.i = @ - 1,
                              !.nonZero = Drawn(r)]
    /\ UNCHANGED <<libraryVars, slugs, page, browser, globe>>

\* return selected; and GET's return json({ dishes });
GET ==
    /\ featured.pc = "shuffle"
    /\ featured.i <= 0
    /\ featured' = [featured EXCEPT !.pc = "returned",
                                    !.response = <<[dishes |-> featured.selected]>>]
    /\ UNCHANGED <<libraryVars, slugs, page, browser, globe>>

NextFeatured ==
    \/ selectDish
    \/ shuffleStart
    \/ shuffleSwap
    \/ GET

SpecFeatured == InitFeatured /\ [][NextFeatured]_vars

----------------------------------------------------------------------------
(* Vocabulary of the properties *)

Indices(s) == 0..(Len(s) - 1)

LocatedIndices(s) == {i \in Indices(s) : IsLocated(s[i + 1])}

\* The list s with the step x inserted so that x gets (0-based) index pos.
InsertAt(s, pos, x) == SubSeq(s, 1, pos) \o <<x>> \o SubSeq(s, pos + 1, Len(s))

\* Number of places (cluster, position) at which index i is recorded.
Occurrences(cs, i) ==
    Cardinality({p \in (1..Len(cs)) \X (1..MaxSteps + 1) :
                    /\ p[2] <= Len(cs[p[1]].indices)
                    /\ cs[p[1]].indices[p[2]] = i})

\* The index of the step that founded cluster k.
Founder(cs, k) == cs[k].indices[1]

\* Distance in metres between the located steps i and j of s, from the
\* closed form of the great-circle arc.
StepArc(s, i, j) ==
    IF s[i + 1].lng = s[j + 1].lng
    THEN Abs(s[i + 1].lat[1] - s[j + 1].lat[1])
    ELSE s[i + 1].lat[1] + s[j + 1].lat[1]

Returned == pc = "returned"

----------------------------------------------------------------------------
(* C1 *)

\* C1: computeClusters partitions the located steps: in the returned
\* clusters every index of a located step occurs exactly once, no index of an
\* unlocated step occurs, every recorded index is an index of the list, and
\* there are at most as many clusters as located steps.
C1_Partition ==
    Returned =>
        /\ \A i \in Indices(steps) :
              Occurrences(clusters, i) = IF IsLocated(steps[i + 1]) THEN 1 ELSE 0
        /\ \A k \in 1..Len(clusters) : Range(clusters[k].indices) \subseteq Indices(steps)
        /\ Len(clusters) <= Cardinality(LocatedIndices(steps))

\* A returned result with two clusters, one of them with two members, for a
\* list that also holds an unlocated step.
C1_Witness ==
    /\ Returned
    /\ Len(clusters) = 2
    /\ \E k \in 1..Len(clusters) : Len(clusters[k].indices) = 2
    /\ \E i \in Indices(steps) : ~IsLocated(steps[i + 1])

----------------------------------------------------------------------------
(* C2 *)

\* C2: the threshold is strict.  When exactly two steps of the list are
\* located, at distance d, the result is one cluster holding both when
\* d < 20 km and two clusters of one step each when d >= 20 km; in
\* particular one cluster at 19.9 km, two at exactly 20 km and at 20.1 km.
C2_StrictThreshold ==
    Returned =>
        \A i, j \in LocatedIndices(steps) :
            (i < j /\ LocatedIndices(steps) = {i, j}) =>
                /\ StepArc(steps, i, j) < 20000 =>
                      /\ Len(clusters) = 1
                      /\ clusters[1].indices = <<i, j>>
                /\ StepArc(steps, i, j) >= 20000 =>
                      /\ Len(clusters) = 2
                      /\ clusters[1].indices = <<i>>
                      /\ clusters[2].indices = <<j>>
                /\ StepArc(steps, i, j) = 19900 => Len(clusters) = 1
                /\ StepArc(steps, i, j) \in {20000, 20100} => Len(clusters) = 2

\* Two located steps exactly 20 km apart, returned as two clusters.
C2_Witness ==
    /\ Returned
    /\ \E i, j \in LocatedIndices(steps) :
          /\ i < j
          /\ LocatedIndices(steps) = {i, j}
          /\ StepArc(steps, i, j) = 20000
    /\ Len(clusters) = 2

----------------------------------------------------------------------------
(* C3 *)

\* The cluster of cs that records index i.
ClusterOf(cs, i) == CHOOSE k \in 1..Len(cs) : i \in Range(cs[k].indices)

\* The clusters that existed when step i was processed: those founded by an
\* earlier step.
ExistingBefore(cs, i) == {k \in 1..Len(cs) : Founder(cs, k) < i}

\* C3: a cluster's representative coordinate is the coordinate of the step
\* that founded it, whatever joined later; and each located step is recorded
\* in the first cluster, in creation order, among those existing when it was
\* processed whose representative is less than 20 km away (a nearer cluster
\* created later does not matter), founding a new one exactly when there is
\* no such cluster.
C3_FirstMatchFixedRepresentative ==
    pc \in {"forEach", "returned"} =>
        /\ \A k \in 1..Len(clusters) :
              /\ Founder(clusters, k) \in LocatedIndices(steps)
              /\ clusters[k].lat = steps[Founder(clusters, k) + 1].lat[1]
              /\ clusters[k].lng = steps[Founder(clusters, k) + 1].lng[1]
        /\ \A i \in LocatedIndices(steps) :
              i < index =>
                LET near == {k \in ExistingBefore(clusters, i) :
                                StepArc(steps, i, Founder(clusters, k)) < 20000}
                    mine == ClusterOf(clusters, i)
                IN  /\ \E k \in 1..Len(clusters) : i \in Range(clusters[k].indices)
                    /\ near = {} => Founder(clusters, mine) = i
                    /\ near # {} => /\ mine \in near
                                    /\ \A k \in near : mine <= k

\* A step recorded in a cluster although a cluster created later, and
\* existing when the step was processed, is strictly nearer.
C3_Witness ==
    /\ Returned
    /\ \E i \in LocatedIndices(steps) :
          \E k \in ExistingBefore(clusters, i) :
              /\ ClusterOf(clusters, i) < k
              /\ Founder(clusters, ClusterOf(clusters, i)) # i
              /\ StepArc(steps, i, Founder(clusters, k))
                    < StepArc(steps, i, Founder(clusters, ClusterOf(clusters, i)))

----------------------------------------------------------------------------
(* C4 *)

StrictlyIncreasing(s) == \A a, b \in 1..Len(s) : a < b => s[a] < s[b]

\* C4: discovery order.  The first cluster is founded by the earliest located
\* step, the founders of successive clusters have strictly increasing
\* indices, and the indices within each cluster are strictly increasing (so
\* the founder's index comes first).
C4_DiscoveryOrder ==
    Returned =>
        /\ LocatedIndices(steps) # {} =>
              /\ Len(clusters) >= 1
              /\ \A i \in LocatedIndices(steps) : Founder(clusters, 1) <= i
        /\ StrictlyIncreasing([k \in 1..Len(clusters) |-> Founder(clusters, k)])
        /\ \A k \in 1..Len(clusters) :
              /\ Len(clusters[k].indices) >= 1
              /\ StrictlyIncreasing(clusters[k].indices)

\* Two clusters whose members interleave, after a leading unlocated step.
C4_Witness ==
    /\ Returned
    /\ Len(steps) >= 1 /\ ~IsLocated(steps[1])
    /\ Len(clusters) = 2
    /\ Len(clusters[1].indices) = 2
    /\ clusters[1].indices[2] > Founder(clusters, 2)

----------------------------------------------------------------------------
(* C5 *)

\* The index a step at index i has after an insertion at index pos.
Shifted(i, pos) == IF i < pos THEN i ELSE i + 1

\* C5: unlocated steps, mixed-null ones included, neither found nor join a
\* cluster, and inserting one anywhere in the list changes nothing for the
\* located steps: the result for the longer list has the same clusters, with
\* the same representative coordinates and the same members (under their new
\* indices).
C5_UnlocatedSkipped ==
    Returned =>
        /\ \A k \in 1..Len(clusters) :
              \A i \in Range(clusters[k].indices) : IsLocated(steps[i + 1])
        /\ \A pos \in 0..Len(steps) : \A u \in UnlocatedSteps :
              LET longer == computeClusters(InsertAt(steps, pos, u))
              IN  /\ Len(longer) = Len(clusters)
                  /\ \A k \in 1..Len(clusters) :
                        /\ longer[k].lat = clusters[k].lat
                        /\ longer[k].lng = clusters[k].lng
                        /\ longer[k].indices =
                              [n \in 1..Len(clusters[k].indices) |->
                                  Shifted(clusters[k].indices[n], pos)]

\* A result with a cluster of two steps that have a mixed-null step between
\* them, for a list that starts with a step whose coordinates are both null.
C5_Witness ==
    /\ Returned
    /\ Len(steps) = 4
    /\ steps[1].lat = null /\ steps[1].lng = null
    /\ IsLocated(steps[2])
    /\ steps[3].lat # null /\ steps[3].lng = null
    /\ IsLocated(steps[4])
    /\ Len(clusters) = 1
    /\ clusters[1].indices = <<1, 3>>

----------------------------------------------------------------------------
(* C6 *)

Called == totalDistance # null

\* C6: with no located step or one, calculateTotalDistance returns 0.
C6_ZeroWithoutPair ==
    (Called /\ Cardinality(LocatedIndices(steps)) <= 1) => totalDistance = Num(0)

\* A call on one located step among unlocated ones.
C6_Witness ==
    /\ Called
    /\ Cardinality(LocatedIndices(steps)) = 1
    /\ Len(steps) >= 3
    /\ \E i \in Indices(steps) : steps[i + 1].lat = null /\ steps[i + 1].lng # null

----------------------------------------------------------------------------
(* C7 *)

\* The located steps of s, in order.
RECURSIVE LocatedOnly(_)
LocatedOnly(s) ==
    IF s = <<>> THEN <<>>
    ELSE (IF IsLocated(Head(s)) THEN <<Head(s)>> ELSE <<>>) \o LocatedOnly(Tail(s))

\* C7: the returned distance does not change when unlocated steps (both
\* coordinates null, or one) are inserted: it is the distance returned for
\* the list with one more unlocated step at any position, and the distance
\* returned for the list of the located steps alone, of which the list is an
\* extension by any number of unlocated steps at any positions.
C7_UnlocatedInvariant ==
    Called =>
        /\ \A pos \in 0..Len(steps) : \A u \in UnlocatedSteps :
              calculateTotalDistance(InsertAt(steps, pos, u)) = totalDistance[1]
        /\ calculateTotalDistance(LocatedOnly(steps)) = totalDistance[1]

\* A call that returned a positive distance for a list that already holds a
\* mixed-null step between two located ones.
C7_Witness ==
    /\ Called
    /\ totalDistance[1] > 0
    /\ \E i \in Indices(steps) :
          /\ ~IsLocated(steps[i + 1])
          /\ steps[i + 1].lat # null \/ steps[i + 1].lng # null
          /\ \E a, b \in LocatedIndices(steps) : a < i /\ i < b

----------------------------------------------------------------------------
(* C8 *)

\* The located step that follows located step i, or -1.
NextLocated(s, i) ==
    IF \E j \in LocatedIndices(s) : j > i
    THEN CHOOSE j \in LocatedIndices(s) :
            j > i /\ \A m \in LocatedIndices(s) : m > i => j <= m
    ELSE -1

\* Sum, in metres, of the arcs between each located step and the next one.
RECURSIVE PathLength(_, _)
PathLength(s, i) ==
    IF i >= Len(s) THEN 0
    ELSE (IF IsLocated(s[i + 1]) /\ NextLocated(s, i) # -1
          THEN StepArc(s, i, NextLocated(s, i)) ELSE 0) + PathLength(s, i + 1)

\* C8: the returned value is a non-negative multiple of 100 (km) and no
\* other multiple of 100 is nearer to the sum of the great-circle distances
\* between consecutive located steps, taken in list order from the steps'
\* own coordinates.
C8_RoundedPathLength ==
    Called =>
        /\ totalDistance[1] >= 0
        /\ totalDistance[1] % 100 = 0
        /\ Abs(totalDistance[1] * 1000 - PathLength(steps, 0)) <= 50000

\* A call whose sum (10056.2 km) is rounded up, over three located steps and
\* an unlocated one.
C8_Witness ==
    /\ Called
    /\ Cardinality(LocatedIndices(steps)) = 3
    /\ Len(steps) = 4
    /\ PathLength(steps, 0) = 10056200
    /\ totalDistance = Num(10100)

----------------------------------------------------------------------------
(* C9 *)

\* c is the letter l (a lower-case letter) in either case.
IsLetter(c, l) ==
    \E n \in 1..26 : LowerCase[n] = l /\ (c = LowerCase[n] \/ c = UpperCase[n])

\* The word w (lower-case letters) stands at position p of s, in any case.
WordAt(s, p, w) ==
    /\ p >= 1
    /\ p + Len(w) - 1 <= Len(s)
    /\ \A i \in 1..Len(w) : IsLetter(s[p + i - 1], w[i])

\* Position q holds a digit, and only white space lies between q and e.
DigitBefore(s, q, e) ==
    /\ q \in 1..(e - 1)
    /\ s[q] \in {"0", "1", "2", "3", "4", "5", "6", "7", "8", "9"}
    /\ \A i \in (q + 1)..(e - 1) : s[i] \in {" ", "\t"}

\* The number written by the digits of s that end at position q, at most max
\* of them.
RECURSIVE NumberEndingAt(_, _, _)
NumberEndingAt(s, q, max) ==
    IF q < 1 \/ max = 0 \/ s[q] \notin {"0", "1", "2", "3", "4", "5", "6", "7", "8", "9"}
    THEN 0
    ELSE NumberEndingAt(s, q - 1, max - 1) * 10
            + (CHOOSE v \in 0..9 : Digits[v + 1] = s[q])

\* How many of at most max digits of s end at position q.
RECURSIVE DigitsEndingAt(_, _, _)
DigitsEndingAt(s, q, max) ==
    IF q < 1 \/ max = 0 \/ s[q] \notin {"0", "1", "2", "3", "4", "5", "6", "7", "8", "9"}
    THEN 0
    ELSE 1 + DigitsEndingAt(s, q - 1, max - 1)

Least(S) == CHOOSE x \in S : \A y \in S : x <= y

\* Rule 1: the places where BC (or BCE) follows a digit, white space allowed
\* in between.
BcPlaces(s) == {e \in 1..Len(s) : WordAt(s, e, <<"b", "c">>) /\ \E q \in 1..Len(s) : DigitBefore(s, q, e)}

Rule1Year(s) ==
    LET e == Least(BcPlaces(s))
        q == CHOOSE q \in 1..Len(s) : DigitBefore(s, q, e)
    IN  -NumberEndingAt(s, q, 4)

\* Rule 2: the places where "century" follows an ordinal suffix that follows
\* a digit, white space allowed before "century".
OrdinalAt(s, p) ==
    \/ WordAt(s, p, <<"s", "t">>) \/ WordAt(s, p, <<"n", "d">>)
    \/ WordAt(s, p, <<"r", "d">>) \/ WordAt(s, p, <<"t", "h">>)

CenturyPlaces(s) ==
    {e \in 1..Len(s) :
        /\ WordAt(s, e, <<"c", "e", "n", "t", "u", "r", "y">>)
        /\ \E q \in 1..Len(s) :
              /\ OrdinalAt(s, q + 1)
              /\ DigitBefore(s, q, q + 1)
              /\ \A i \in (q + 3)..(e - 1) : s[i] \in {" ", "\t"}
              /\ q + 3 <= e}

Rule2Year(s) ==
    LET e == Least(CenturyPlaces(s))
        q == CHOOSE q \in 1..Len(s) :
                /\ OrdinalAt(s, q + 1)
                /\ DigitBefore(s, q, q + 1)
                /\ \A i \in (q + 3)..(e - 1) : s[i] \in {" ", "\t"}
                /\ q + 3 <= e
    IN  (NumberEndingAt(s, q, 2) - 1) * 100 + 50

\* Rule 3: the places where three consecutive digits end.
PlainPlaces(s) == {q \in 1..Len(s) : DigitsEndingAt(s, q, 3) = 3}

\* The first three digits, and the fourth when a digit follows them.
Rule3Year(s) ==
    LET q == Least(PlainPlaces(s))
    IN  IF q < Len(s) /\ DigitsEndingAt(s, q + 1, 4) = 4
        THEN NumberEndingAt(s, q + 1, 4)
        ELSE NumberEndingAt(s, q, 3)

\* The year the rules give for the label s, first rule that applies.
RuleYear(s) ==
    IF BcPlaces(s) # {} THEN Num(Rule1Year(s))
    ELSE IF CenturyPlaces(s) # {} THEN Num(Rule2Year(s))
    ELSE IF PlainPlaces(s) # {} THEN Num(Rule3Year(s))
    ELSE null

YearCalled == yearResult # null

\* C9: extractYear returns what the rules give, in priority order and in
\* any letter case: minus the (up to four) digits before BC/BCE; else
\* (century - 1) * 100 + 50 for the (up to two) digits before an ordinal
\* suffix and "century"; else the first three or four consecutive digits;
\* else null.  "3000 BCE" gives -3000, "19th Century" 1850, "1889" 1889,
\* "no date here" null, and "300 BC", which also has three digits, -300.
C9_ExtractYearRules ==
    YearCalled =>
        /\ yearResult[1] = RuleYear(yearString)
        /\ yearString = Label3000BCE => yearResult[1] = Num(-3000)
        /\ yearString = Label19thCentury => yearResult[1] = Num(1850)
        /\ yearString = Label1889 => yearResult[1] = Num(1889)
        /\ yearString = LabelNoDate => yearResult[1] = null
        /\ yearString = Label300BC => yearResult[1] = Num(-300)

\* A call on a label that has BC after a digit, and three digits in a row,
\* and an ordinal century as well, answered from the BC rule.
C9_Witness ==
    /\ YearCalled
    /\ BcPlaces(yearString) # {}
    /\ CenturyPlaces(yearString) # {}
    /\ PlainPlaces(yearString) = {}
    /\ yearResult[1] = Num(-40)

----------------------------------------------------------------------------
(* C10 *)

SpanCalled == span # null

\* C10: for the empty list the span has no years and the era "Unknown".  For
\* any other list the era is the first step's label as written, and the years
\* are the absolute difference of the years of the first and the last label
\* when both parse, and null when either does not.  The steps in between
\* play no part: the result is the one for the first and last step alone.
C10_TimelineSpan ==
    SpanCalled =>
        LET first == steps[1]
            last == steps[Len(steps)]
        IN  /\ Len(steps) = 0 =>
                  span[1] = [years |-> null, fallbackEra |-> Unknown]
            /\ Len(steps) > 0 =>
                  /\ span[1].fallbackEra = first.year
                  /\ (extractYear(first.year) # null /\ extractYear(last.year) # null) =>
                        /\ span[1].years # null
                        /\ span[1].years[1] >= 0
                        /\ \/ span[1].years[1] = extractYear(last.year)[1] - extractYear(first.year)[1]
                           \/ span[1].years[1] = extractYear(first.year)[1] - extractYear(last.year)[1]
                  /\ (extractYear(first.year) = null \/ extractYear(last.year) = null) =>
                        span[1].years = null
            /\ Len(steps) > 2 => span[1] = calculateTimelineSpan(<<first, last>>)

\* A call on three steps whose first year (1960) is later than its last
\* (3000 BCE), with a label that does not parse in between: 4960 years.
C10_Witness ==
    /\ SpanCalled
    /\ Len(steps) = 3
    /\ steps[1].year = Label1960
    /\ steps[2].year = LabelNoDate
    /\ steps[3].year = Label3000BCE
    /\ span[1] = [years |-> Num(4960), fallbackEra |-> Label1960]

----------------------------------------------------------------------------
(* The end-to-end scenario: '3000 BCE' at A, '1850' unlocated, '1960' at B *)

ScenarioSteps ==
    << Step(Label3000BCE, Num(BaseArc), Num(0)),
       Step(Label1850, null, null),
       Step(Label1960, Num(8000), Num(180)) >>

\* C11 as stated: for the scenario list calculateTimelineSpan returns
\* {years: 4850, fallbackEra: '3000 BCE'}.
C11_ScenarioSpan4850 ==
    (SpanCalled /\ steps = ScenarioSteps) =>
        span[1] = [years |-> Num(4850), fallbackEra |-> Label3000BCE]

\* C11 amended: for the scenario list calculateTimelineSpan returns
\* {years: 4960, fallbackEra: '3000 BCE'}: the first label is the year -3000,
\* the last one the year 1960, and the unlocated '1850' in between plays no
\* part.
C11_ScenarioSpan4960 ==
    (SpanCalled /\ steps = ScenarioSteps) =>
        span[1] = [years |-> Num(4960), fallbackEra |-> Label3000BCE]

\* The call on the scenario list has returned.
C11_Witness ==
    /\ SpanCalled
    /\ steps = ScenarioSteps
    /\ span[1].years # null

----------------------------------------------------------------------------
(* C12 *)

StopsCalled == stops # null

----------------------------------------------------------------------------
(* C13 - C17: updateRoute *)

\* setData has been called on the route source.
RouteUpdated == routeData # null

\* The coordinate list of the geometry given to setData.
RouteCoordinates == routeData[1].coordinates

\* <<lng, lat>> of a located step.
PositionOf(step) == <<step.lng[1], step.lat[1]>>

\* The (0-based) indices held by the clusters of cs whose representative is
\* at the position.
VisitsOf(cs, position) ==
    UNION {Range(cs[j].indices) : j \in {k \in 1..Len(cs) : <<cs[k].lng, cs[k].lat>> = position}}

\* C13: the waypoints updateRoute builds are the representatives of the
\* clusters, each exactly once: there are as many waypoints as clusters,
\* every cluster's [lng, lat] occurs once, each waypoint is the position of
\* the first step of its cluster, and the waypoints are in the order of
\* these first steps.  So a step of a cluster visited before, and a step
\* without both coordinates, adds nothing.
C13_Waypoints ==
    RouteUpdated =>
        LET cs == computeClusters(steps)
            firstVisit == [w \in 1..Len(coordinates) |->
                              IF VisitsOf(cs, coordinates[w]) = {} THEN -1
                              ELSE Least(VisitsOf(cs, coordinates[w]))]
        IN  /\ Len(coordinates) = Len(cs)
            /\ \A j \in 1..Len(cs) :
                  Cardinality({w \in 1..Len(coordinates) :
                                  coordinates[w] = <<cs[j].lng, cs[j].lat>>}) = 1
            /\ \A w \in 1..Len(coordinates) :
                  /\ firstVisit[w] >= 0
                  /\ IsLocated(steps[firstVisit[w] + 1])
                  /\ coordinates[w] = PositionOf(steps[firstVisit[w] + 1])
            /\ \A w1, w2 \in 1..Len(coordinates) :
                  w1 < w2 => firstVisit[w1] < firstVisit[w2]

\* The route of a step, an unlocated step, a step 20.09 km from the first
\* and a step 196 m from that one and 19.894 km from the first: the last one
\* revisits the first cluster, and there are two waypoints.
C13_Witness ==
    /\ RouteUpdated
    /\ Len(steps) = 4
    /\ steps[1] = Step(GeoYear, Num(RouteBase), Num(0))
    /\ steps[2] = Step(GeoYear, null, null)
    /\ steps[3] = Step(GeoYear, Num(RouteBase + 20090), Num(0))
    /\ steps[4] = Step(GeoYear, Num(RouteBase + 19894), Num(0))
    /\ coordinates = << <<0, RouteBase>>, <<0, RouteBase + 20090>> >>

\* C14: when the steps give fewer than two waypoints (no located step, or
\* all located steps in one cluster) updateRoute calls turf.greatCircle not
\* once, and the geometry it sets is the waypoint list itself, of length at
\* most 1.
C14_ShortRoute ==
    (RouteUpdated /\ (Len(coordinates) < 2 \/ Len(computeClusters(steps)) <= 1)) =>
        /\ RouteCoordinates = coordinates
        /\ Len(RouteCoordinates) <= 1
        /\ Len(RouteCoordinates) = Len(computeClusters(steps))
        /\ arcCalls = 0
        /\ ~warned

\* The route of three located steps of one cluster and an unlocated one:
\* one waypoint.
C14_Witness ==
    /\ RouteUpdated
    /\ Cardinality(LocatedIndices(steps)) = 3
    /\ Len(steps) = 4
    /\ RouteCoordinates = << <<0, RouteBase>> >>

\* C15: no two consecutive entries of the coordinate list given to setData
\* are equal, whether the list was interpolated or not.
C15_NoRepeatedPoint ==
    RouteUpdated =>
        \A i \in 1..(Len(RouteCoordinates) - 1) :
            RouteCoordinates[i] # RouteCoordinates[i + 1]

\* An interpolated route through three waypoints: two arcs that share the
\* middle waypoint.
C15_Witness ==
    /\ RouteUpdated
    /\ ~warned
    /\ Len(coordinates) = 3
    /\ Len(RouteCoordinates) = 2 * (npoints - 1) + 1
    /\ RouteCoordinates[npoints] = coordinates[2]

\* C16: with N >= 2 waypoints and no exception from turf.greatCircle the
\* coordinate list given to setData is one sequence of (npoints - 1) * (N - 1)
\* + 1 positions that starts at the first waypoint and ends at the last.
C16_ArcsConcatenated ==
    (RouteUpdated /\ Len(coordinates) >= 2 /\ ~warned) =>
        /\ Len(RouteCoordinates) = (npoints - 1) * (Len(coordinates) - 1) + 1
        /\ \A i \in 1..Len(RouteCoordinates) : Len(RouteCoordinates[i]) = 2
        /\ RouteCoordinates[1] = coordinates[1]
        /\ RouteCoordinates[Len(RouteCoordinates)] = coordinates[Len(coordinates)]

\* C17: when a call of turf.greatCircle throws - the first, one in the
\* middle or the last - setData is still called, and the coordinate list
\* it is given is the complete list of waypoints and nothing else.
C17_FallbackWhole ==
    warned =>
        /\ RouteUpdated
        /\ RouteCoordinates = coordinates
        /\ coordinates = Waypoints(steps)
        /\ Len(coordinates) >= 2
        /\ arcCalls \in 1..(Len(coordinates) - 1)

\* The second of three calls threw, after a first arc had been computed.
C17_Witness ==
    /\ warned
    /\ RouteUpdated
    /\ Len(coordinates) = 4
    /\ arcCalls = 2

----------------------------------------------------------------------------
(* C18 *)

Formatted == formatted # null

\* str is a number written with digits alone, or with digits, a point and
\* one digit that is not 0; no leading 0 before other digits.
IsCompactNumber(str) ==
    LET whole == IF Len(str) >= 2 /\ str[Len(str) - 1] = "."
                 THEN SubSeq(str, 1, Len(str) - 2) ELSE str
    IN  /\ whole # <<>>
        /\ \A i \in 1..Len(whole) : IsDigit(whole[i])
        /\ Len(whole) > 1 => whole[1] # "0"
        /\ whole # str => (IsDigit(str[Len(str)]) /\ str[Len(str)] # "0")

\* The number str stands for, in tenths.
TenthsOf(str) ==
    IF Len(str) >= 2 /\ str[Len(str) - 1] = "."
    THEN parseInt(SubSeq(str, 1, Len(str) - 2)) * 10 + parseInt(<<str[Len(str)]>>)
    ELSE parseInt(str) * 10

\* str is num in units of `unit` to the nearest tenth, followed by the
\* letter of the unit.
IsCompactIn(str, num, unit, letter) ==
    /\ str # <<>>
    /\ str[Len(str)] = letter
    /\ IsCompactNumber(SubSeq(str, 1, Len(str) - 1))
    /\ Abs(TenthsOf(SubSeq(str, 1, Len(str) - 1)) * unit - num * 10) * 2 <= unit

\* str is the compact form of num >= 0.
IsCompact(str, num) ==
    IF num >= 1000000 THEN IsCompactIn(str, num, 1000000, "M")
    ELSE IF num >= 1000 THEN IsCompactIn(str, num, 1000, "K")
    ELSE /\ IsCompactNumber(str)
         /\ TenthsOf(str) = num * 10

\* C18: formatDistance(0) is "0 km" and any other distance is its compact
\* form followed by " km"; the compact form of a number from a million on
\* is the number of millions, and from a thousand on the number of
\* thousands, to the nearest tenth, without a decimal that is 0, followed by
\* M or K; a smaller number is written as it is.  5900 gives "5.9K km" and
\* 1200000 gives "1.2M km".  formatTimelineSpan gives "~" and the compact
\* form of the years when there are years, and else the fallback era as it
\* is.
C18_DisplayFormats ==
    Formatted =>
        LET out == formatted[1]
        IN  /\ formatInput.fn = "formatDistance" =>
                  /\ formatInput.km = 0 => out = <<"0", " ", "k", "m">>
                  /\ formatInput.km # 0 =>
                        /\ Len(out) > 3
                        /\ SubSeq(out, Len(out) - 2, Len(out)) = <<" ", "k", "m">>
                        /\ IsCompact(SubSeq(out, 1, Len(out) - 3), formatInput.km)
                  /\ formatInput.km = 5900 => out = <<"5", ".", "9", "K", " ", "k", "m">>
                  /\ formatInput.km = 1200000 => out = <<"1", ".", "2", "M", " ", "k", "m">>
            /\ formatInput.fn = "formatTimelineSpan" =>
                  /\ formatInput.span.years # null =>
                        /\ Len(out) > 1
                        /\ out[1] = "~"
                        /\ IsCompact(Tail(out), formatInput.span.years[1])
                  /\ formatInput.span.years = null => out = formatInput.span.fallbackEra

\* formatDistance has returned "2K km" for 1960: the tenth rounds up to a
\* whole number and its decimal 0 is removed.
C18_Witness ==
    /\ Formatted
    /\ formatInput.fn = "formatDistance"
    /\ formatInput.km = 1960
    /\ formatted[1] = <<"2", "K", " ", "k", "m">>

----------------------------------------------------------------------------
(* C19 *)

\* A step of a behaviour leaves the step list as it is, and a call of
\* calculateTotalDistance, calculateTimelineSpan or countStops made after an
\* earlier one returns what the earlier one returned.
SameResultSameSteps ==
    /\ steps' = steps
    /\ totalDistance # null => totalDistance' = totalDistance
    /\ span # null => span' = span
    /\ stops # null => stops' = stops

----------------------------------------------------------------------------
(* C20 *)

Responded == response # null

\* lat and lng are numbers, lat from -90 to 90 and lng from -180 to 180.
LocatedAnswerStep(step) ==
    /\ step.lat.type = "number"
    /\ step.lng.type = "number"
    /\ step.lat.value \in -90..90
    /\ step.lng.value \in -180..180

\* lat and lng are both null.
UnlocatedAnswerStep(step) == step.lat = JNull /\ step.lng = JNull

\* C20: every step of a successful response is located or unlocated, and
\* an answer with a step that is neither - a coordinate out of range, or one
\* coordinate null and the other not - is answered with an error.
C20_StepsLocatedOrUnlocated ==
    Responded =>
        /\ response[1].status = 200 =>
              \A i \in 1..Len(response[1].body[1].steps.items) :
                  \/ LocatedAnswerStep(response[1].body[1].steps.items[i])
                  \/ UnlocatedAnswerStep(response[1].body[1].steps.items[i])
        /\ (\E i \in 1..Len(parsedResponse.steps.items) :
                  /\ ~LocatedAnswerStep(parsedResponse.steps.items[i])
                  /\ ~UnlocatedAnswerStep(parsedResponse.steps.items[i]))
              => response[1].status # 200

(* ------------------------------------------------------------------ *)
(* C21                                                                  *)
(* ------------------------------------------------------------------ *)

Label5thCenturyBCE ==
    <<"5", "t", "h", " ", "c", "e", "n", "t", "u", "r", "y", " ", "B", "C", "E">>

Label1thCenturyBC ==
    <<"1", "t", "h", "C", "e", "n", "t", "u", "r", "y", "B", "C">>

Label30ndCenturyBce ==
    <<"3", "0", "n", "d", "C", "e", "n", "t", "u", "r", "y", "b", "c", "e">>

\* The labels that name an ordinal century and then the era BCE or BC.
CenturyBceLabels == {Label5thCenturyBCE, Label1thCenturyBC, Label30ndCenturyBce}

\* C21: a label that combines an ordinal century with BCE or BC is
\* unparseable for extractYear: the call returns null and no guessed year.
C21_CenturyBceUnparsed ==
    (YearCalled /\ yearString \in CenturyBceLabels) => yearResult[1] = null

(* ------------------------------------------------------------------ *)
(* C22                                                                  *)
(* ------------------------------------------------------------------ *)

\* Distance in metres between the representatives of clusters j and k.
RepresentativeArc(cs, j, k) ==
    turfDistance(<<cs[j].lng, cs[j].lat>>, <<cs[k].lng, cs[k].lat>>)

\* Distance in metres between step i and the representative of cluster k.
MemberArc(s, cs, i, k) ==
    turfDistance(<<s[i + 1].lng[1], s[i + 1].lat[1]>>, <<cs[k].lng, cs[k].lat>>)

\* C22: in every result of computeClusters the representatives of two
\* distinct clusters are at least 20 km apart and every member of a cluster
\* is strictly less than 20 km from its representative; so no two clusters
\* have the same representative coordinate, and updateRoute builds as many
\* waypoints as there are clusters.
C22_ClustersSeparated ==
    Returned =>
        /\ \A j, k \in 1..Len(clusters) :
              j # k => RepresentativeArc(clusters, j, k) >= CLUSTER_DISTANCE_KM * 1000
        /\ \A k \in 1..Len(clusters) : \A i \in Range(clusters[k].indices) :
              MemberArc(steps, clusters, i, k) < CLUSTER_DISTANCE_KM * 1000
        /\ \A j, k \in 1..Len(clusters) :
              j # k => <<clusters[j].lng, clusters[j].lat>>
                          # <<clusters[k].lng, clusters[k].lat>>
        /\ Len(Waypoints(steps)) = Len(clusters)

\* A result with two clusters whose representatives are exactly 20 km apart,
\* one of them with a member that is not at its representative.
C22_Witness ==
    /\ Returned
    /\ Len(clusters) = 2
    /\ RepresentativeArc(clusters, 1, 2) = CLUSTER_DISTANCE_KM * 1000
    /\ \E k \in 1..Len(clusters) : \E i \in Range(clusters[k].indices) :
          /\ MemberArc(steps, clusters, i, k) > 0
          /\ MemberArc(steps, clusters, i, k) < CLUSTER_DISTANCE_KM * 1000

(* ------------------------------------------------------------------ *)
(* C23                                                                  *)
(* ------------------------------------------------------------------ *)

\* The number formatNumberCompact was applied to by the call made.
CompactArgument ==
    IF formatInput.fn = "formatDistance" THEN formatInput.km
    ELSE formatInput.span.years[1]

\* The compact form in the text returned: without " km", or without "~".
CompactPart ==
    IF formatInput.fn = "formatDistance"
    THEN SubSeq(formatted[1], 1, Len(formatted[1]) - 3)
    ELSE Tail(formatted[1])

\* The call made applied formatNumberCompact to a number.
CompactCalled ==
    /\ Formatted
    /\ formatInput.fn = "formatDistance" => formatInput.km # 0
    /\ formatInput.fn = "formatTimelineSpan" => formatInput.span.years # null

\* C23: the number written before K is below 1000 and the number written
\* before M is at least 1: for every n with 1000 <= n < 1000000 the compact
\* form ends in K after a number below 1000 (999950..999999 do not give
\* "1000K"), and for n >= 1000000 it ends in M after a number of at least 1.
C23_CompactBelowThousand ==
    CompactCalled =>
        LET str == CompactPart
            number == SubSeq(str, 1, Len(str) - 1)
        IN  /\ (CompactArgument >= 1000 /\ CompactArgument < 1000000) =>
                  /\ str[Len(str)] = "K"
                  /\ TenthsOf(number) < 1000 * 10
            /\ CompactArgument >= 1000000 =>
                  /\ str[Len(str)] = "M"
                  /\ TenthsOf(number) >= 1 * 10

(* ------------------------------------------------------------------ *)
(* C29                                                                  *)
(* ------------------------------------------------------------------ *)

\* The slug the search of the dish left in the URL.
ShownSlug == pathSlug(slugs.shown)

\* C29: slugs are stable under the URL round trip.  For the slug s that the
\* search of a dish left in the URL, toSlug(fromSlug(s)) = s and
\* toSlug(s) = s; so loading the page from that URL pushes no history
\* entry and leaves the URL as it is.
C29_SlugRoundTrip ==
    slugs.stage = "loaded" =>
        /\ toSlug(fromSlug(ShownSlug)) = ShownSlug
        /\ toSlug(ShownSlug) = ShownSlug
        /\ slugs.history = slugs.shown

(* ------------------------------------------------------------------ *)
(* C24                                                                  *)
(* ------------------------------------------------------------------ *)

\* mapMode is "discovery": let mapMode = $derived(hasSearched ? "history" : "discovery")
DiscoveryMode == ~page.hasSearched

\* C24: whenever the page is in discovery mode dishHistory is null, also
\* after a resetView or a popstate to the home path made while a history
\* request was in flight: the late response does not populate dishHistory,
\* so the map gets no history steps in discovery mode.
C24_NoHistoryInDiscovery ==
    DiscoveryMode => page.dishHistory = null

(* ------------------------------------------------------------------ *)
(* C25                                                                  *)
(* ------------------------------------------------------------------ *)

\* The /api/generate requests in flight.
InFlight == Len(browser.requests)

\* C25: at most one /api/generate request is in flight at any time,
\* whichever trigger calls fetchDishHistory (search, featured click, deep
\* link, popstate), and isSearching is true exactly while a request is in
\* flight: it is false again once the request has settled, on success and
\* on failure alike.
C25_OneRequestInFlight ==
    /\ InFlight <= 1
    /\ page.isSearching <=> InFlight = 1
    /\ page.isLoadingHistory = page.isSearching

\* A request has failed and none is in flight, after a back navigation.
C25_Witness ==
    /\ InFlight = 0
    /\ ~page.isSearching
    /\ page.error # null
    /\ browser.history.current < Len(browser.history.entries)

(* ------------------------------------------------------------------ *)
(* C26                                                                  *)
(* ------------------------------------------------------------------ *)

\* An animateProgress callback is requested and has not run yet.
FramePending == browser.frames # {}

\* C26: playback state stays consistent under every sequence of user
\* actions: isPlaying is true only while an animateProgress frame is
\* pending, so that no action leaves isPlaying true with no animation loop
\* running.
C26_PlayingHasFrame ==
    page.isPlaying => FramePending

(* ------------------------------------------------------------------ *)
(* C27                                                                  *)
(* ------------------------------------------------------------------ *)

\* The step animateProgress selects when it runs in the state after the
\* step: Math.floor(elapsed / STEP_DURATION).
ExpectedStepNext == (browser'.now - page'.playbackStartTime) \div STEP_DURATION

\* A step of handlePlay: the only one that sets isPlaying.
PlayPressed == ~page.isPlaying /\ page'.isPlaying

\* C27: pressing play starts from the current position.  When handlePlay
\* is called with activeCardIndex = k, the first step the animation loop
\* selects is k when k is not the last step (no jump back to an earlier
\* step, for example after a click on card k while paused), and step 0
\* when k is the last step.
PlaysFromActiveCard ==
    PlayPressed =>
        ExpectedStepNext = IF page.activeCardIndex >= Length(page) - 1
                           THEN 0 ELSE page.activeCardIndex

C27_PlayFromCurrentPosition == [][PlaysFromActiveCard]_vars

(* ------------------------------------------------------------------ *)
(* C28                                                                  *)
(* ------------------------------------------------------------------ *)

\* The globe rotates: a rotation loop is scheduled.
Rotating == globe.frames # {}

\* Less than 10 seconds have passed since the last user interaction: the
\* timeout it set has not run yet.
RecentInteraction == globe.inactivityTimer # null

\* C28: a user interaction with the map stops the auto-rotation, and the
\* rotation does not start again until 10 seconds have passed without
\* another interaction, and then only in discovery mode; at most one
\* rotation loop is ever scheduled.
C28_RotationAfterInactivity ==
    /\ Rotating => ~RecentInteraction
    /\ Rotating => globe.mode = "discovery"
    /\ Cardinality(globe.frames) <= 1

(* ------------------------------------------------------------------ *)
(* C30                                                                  *)
(* ------------------------------------------------------------------ *)

\* The positions of `selected` that hold a dish of the pool of region k.
FromRegion(selected, k) ==
    {n \in 1..Len(selected) : selected[n] \in Range(DISH_POOL[k].dishes)}

\* selected holds exactly one dish of each region pool and nothing else.
OnePerRegion(selected) ==
    /\ Len(selected) = Len(DISH_POOL)
    /\ \A k \in 1..Len(DISH_POOL) : Cardinality(FromRegion(selected, k)) = 1
    /\ \A a, b \in 1..Len(selected) : a # b => selected[a] # selected[b]

\* The number of times dish d occurs in selected.
Times(selected, d) == Cardinality({n \in 1..Len(selected) : selected[n] = d})

\* A step of the shuffle keeps every dish as often as it was.
ShufflePermutes ==
    featured.pc = "shuffle" =>
        /\ Len(featured'.selected) = Len(featured.selected)
        /\ \A d \in Range(featured.selected) \cup Range(featured'.selected) :
              Times(featured'.selected, d) = Times(featured.selected, d)

\* C30: whatever Math.random() gives, selectRandomDishes returns exactly
\* one dish from each region pool of DISH_POOL: 15 dishes, no region left
\* out or taken twice, no dish repeated; and the final shuffle only
\* permutes the selection.
C30_OneDishPerRegion ==
    /\ [](featured.pc \in {"shuffle", "returned"} =>
            /\ OnePerRegion(featured.selected)
            /\ Len(featured.selected) = 15)
    /\ [](featured.pc = "returned" => featured.response[1].dishes = featured.selected)
    /\ [][ShufflePermutes]_vars

\* A response whose first dish is not of the first region and in which the
\* last dish of a pool occurs.
C30_Witness ==
    /\ featured.pc = "returned"
    /\ featured.response[1].dishes[1] \notin Range(DISH_POOL[1].dishes)
    /\ \E n \in 1..Len(featured.selected) : \E k \in 1..Len(DISH_POOL) :
          featured.selected[n] = DISH_POOL[k].dishes[Len(DISH_POOL[k].dishes)]

====
